---- MODULE Spec2Model ----
(***************************************************************************)
(* Limit order book reconstruction (Backend/Market/OrderBook.py).          *)
(*                                                                         *)
(* The state is one Book (book), one Market of Books (market) and the      *)
(* positions of a writer and of an aggregated_bbo that run step by step    *)
(* (run).  A Book holds Order objects that are shared by reference between *)
(* the order-id index (orders_by_id) and the per-price lists (LevelOrders) *)
(* of the two sides.  The model keeps that sharing: objs is the heap of    *)
(* Order objects of a Book, and the index and the level lists hold         *)
(* references into it.  An exception raised in the middle of a handler     *)
(* leaves the mutations made before it in place, as in Python.  Assertions *)
(* are enabled (the interpreter's default).                                *)
(***************************************************************************)
EXTENDS Integers, Sequences, FiniteSets, TLC

VARIABLES book, market, run

vars == <<book, market, run>>

(* ------------------------------ bounds -------------------------------- *)

MaxOrderId == 2
MaxPrice == 2
MaxSize == 2
MaxTs == 1
MaxOrders == 2
MaxQueue == 3
MaxQueueId == 3
MaxQueueSize == 1
MaxLevelId == 2
MaxLevelTs == 2
MaxLevelOrders == 2
MaxDepth == 3
MaxInstrument == 2
MaxVenue == 2
MaxMarketId == 1
MaxMarketOrders == 2
MaxAggId == 2
MaxAggSize == 2
MaxAggTs == 2
MaxAggOrders == 2

(* ----------------------------- constants ------------------------------ *)

\* databento_dbn.UNDEF_PRICE is the largest signed 64-bit integer; the model
\* uses 2^31 - 1.  Only that it differs from, and is above, every real
\* price matters.
UNDEF_PRICE == 2147483647

OrderIds == 1 .. (IF MaxQueueId > MaxOrderId THEN MaxQueueId ELSE MaxOrderId)
Instruments == 1 .. MaxInstrument
Venues == 1 .. MaxVenue
RealPrices == 1 .. MaxPrice
Prices == RealPrices \cup {UNDEF_PRICE}
Sizes == 0 .. MaxSize
Timestamps ==
    1 .. (IF MaxLevelTs > MaxTs /\ MaxLevelTs > MaxAggTs THEN MaxLevelTs
          ELSE IF MaxAggTs > MaxTs THEN MaxAggTs ELSE MaxTs)

BookSides == {"A", "B"}
Sides == {"A", "B", "N"}
KnownActions == {"A", "C", "M", "R", "T", "F"}
Actions == KnownActions \cup {"X"}

Events ==
    [action : Actions, side : Sides, order_id : OrderIds, price : Prices,
     size : Sizes, ts_event : Timestamps, tob : BOOLEAN]

(* ------------------------------- helpers ------------------------------ *)

Range(s) == {s[i] : i \in DOMAIN s}

Min(S) == CHOOSE x \in S : \A y \in S : x <= y

Max(S) == CHOOSE x \in S : \A y \in S : x >= y

RECURSIVE SumSeq(_)
SumSeq(s) == IF s = <<>> THEN 0 ELSE Head(s) + SumSeq(Tail(s))

\* list.pop(i) / del list[i], 1-based
RemoveAt(s, i) == [j \in 1 .. (Len(s) - 1) |-> IF j < i THEN s[j] ELSE s[j + 1]]

\* dict without one key
DictPop(d, k) == [x \in (DOMAIN d) \ {k} |-> d[x]]

\* dict with d[k] = v
DictSet(d, k, v) == [x \in (DOMAIN d) \cup {k} |-> IF x = k THEN v ELSE d[x]]

(* ------------------------------- Order -------------------------------- *)

Order(order_id, side, price, size, ts_event, is_tob) ==
    [id |-> order_id, side |-> side, price |-> price, size |-> size,
     ts_event |-> ts_event, is_tob |-> is_tob]

(* -------------------------------- Book -------------------------------- *)

\* Book(): three empty containers, no Order object
EmptyBook ==
    [objs |-> <<>>, orders_by_id |-> <<>>, offers |-> <<>>, bids |-> <<>>]

\* what one call of Book.apply leaves behind: the book, the exception it
\* raised ("None" when it returned) and the branch of the code it took
Result(b, e, path) == [book |-> b, err |-> e, path |-> path]

Book_side_levels(b, side) == IF side = "A" THEN b.offers ELSE b.bids

\* faulty variant: the change reaches the maps of both sides
WithSideLevels_both(b, side, levels) ==
    [b EXCEPT !.offers = levels, !.bids = levels]

\* assignment through the reference _side_levels returns
WithSideLevels(b, side, levels) ==
    IF side = "A" THEN [b EXCEPT !.offers = levels]
                  ELSE [b EXCEPT !.bids = levels]

\* levels[price] raises KeyError when the price is no key
HasLevel(b, price, side) == price \in DOMAIN Book_side_levels(b, side)

Book_get_level(b, price, side) == Book_side_levels(b, side)[price]

Book_get_or_insert_level(b, price, side) ==
    LET levels == Book_side_levels(b, side)
    IN  IF price \notin DOMAIN levels
        THEN WithSideLevels(b, side, DictSet(levels, price, <<>>))
        ELSE b

\* faulty variant: the emptied list stays in the map
Book_remove_level_kept(b, price, side) == b

Book_remove_level(b, price, side) ==
    LET levels == Book_side_levels(b, side)
    IN  IF price \in DOMAIN levels
        THEN WithSideLevels(b, side, DictPop(levels, price))
        ELSE b

\* faulty variant: the order goes to the head of the list
LevelAppend_head(b, price, side, r) ==
    LET levels == Book_side_levels(b, side)
    IN  WithSideLevels(b, side, [levels EXCEPT ![price] = <<r>> \o @])

\* level.orders.append(order)
LevelAppend(b, price, side, r) ==
    LET levels == Book_side_levels(b, side)
    IN  WithSideLevels(b, side, [levels EXCEPT ![price] = Append(@, r)])

\* list.remove(order): the position of the first element that is the
\* object or compares equal to it (dataclass equality: all fields); 0 when
\* there is none (ValueError)
FirstEqual(b, q, r) ==
    LET hits == {i \in DOMAIN q : q[i] = r \/ b.objs[q[i]] = b.objs[r]}
    IN  IF hits = {} THEN 0 ELSE Min(hits)

LevelRemove(b, price, side, r) ==
    LET levels == Book_side_levels(b, side)
        i == FirstEqual(b, levels[price], r)
    IN  WithSideLevels(b, side, [levels EXCEPT ![price] = RemoveAt(@, i)])

\* faulty variant: the index is not cleared
Book_clear_levels_only(b) == [b EXCEPT !.offers = <<>>, !.bids = <<>>]

Book_clear(b) ==
    [b EXCEPT !.orders_by_id = <<>>, !.offers = <<>>, !.bids = <<>>]

\* Order(...): a reference that no live Order object has
NewRef(b) == Min((1 .. (Cardinality(DOMAIN b.objs) + 1)) \ DOMAIN b.objs)

\* the key of the best level of a side; only used where there is one
BestKey(b, side) ==
    IF side = "A" THEN Min(DOMAIN b.offers) ELSE Max(DOMAIN b.bids)

\* faulty variant: an order that crosses the other side takes that side's
\* best level out of the book before it rests
Book_add_matching(b, ts_event, side, order_id, price, size, tob) ==
    LET other == IF side = "A" THEN "B" ELSE "A"
        crosses == /\ DOMAIN Book_side_levels(b, other) # {}
                   /\ IF side = "B" THEN price >= BestKey(b, other)
                                    ELSE price <= BestKey(b, other)
        b0 == IF crosses
              THEN Book_remove_level(b, BestKey(b, other), other)
              ELSE b
        r == NewRef(b0)
        order == Order(order_id, side, price, size, ts_event, tob)
        b1 == [b0 EXCEPT !.objs = DictSet(@, r, order),
                         !.orders_by_id = DictSet(@, order_id, r)]
        b2 == Book_get_or_insert_level(b1, price, side)
    IN  Result(LevelAppend(b2, price, side, r), "None",
               IF HasLevel(b, price, side) THEN "add_append" ELSE "add_insert")

Book_add(b, ts_event, side, order_id, price, size, tob) ==
    LET r == NewRef(b)
        order == Order(order_id, side, price, size, ts_event, tob)
        b1 == [b EXCEPT !.objs = DictSet(@, r, order),
                        !.orders_by_id = DictSet(@, order_id, r)]
        b2 == Book_get_or_insert_level(b1, price, side)
    IN  Result(LevelAppend(b2, price, side, r), "None",
               IF HasLevel(b, price, side) THEN "add_append" ELSE "add_insert")

\* _cancel from "order.size -= size" on, for the indexed order r
Cancel_decrement(b, r, side, order_id, price, size) ==
    LET b1 == [b EXCEPT !.objs[r].size = @ - size]
    IN  IF b1.objs[r].size = 0
        THEN LET b2 == [b1 EXCEPT !.orders_by_id = DictPop(@, order_id)]
             IN  IF FirstEqual(b2, Book_get_level(b2, price, side), r) = 0
                 THEN Result(b2, "ValueError", "cancel_not_in_level")
                 ELSE LET b3 == LevelRemove(b2, price, side, r)
                      IN  IF Book_get_level(b3, price, side) = <<>>
                          THEN Result(Book_remove_level(b3, price, side),
                                      "None", "cancel_last")
                          ELSE Result(b3, "None", "cancel_full")
        ELSE Result(b1, "None", "cancel_partial")

\* faulty variant: no check of the size against the order's remaining size
Cancel_known_unchecked(b, side, order_id, price, size) ==
    IF ~HasLevel(b, price, side)
    THEN Result(b, "KeyError", "cancel_no_level")
    ELSE Cancel_decrement(b, b.orders_by_id[order_id], side, order_id, price, size)

\* the body of _cancel for an order id that is in the index
Cancel_known(b, side, order_id, price, size) ==
    LET r == b.orders_by_id[order_id]
        order == b.objs[r]
    IN  IF ~HasLevel(b, price, side)
        THEN Result(b, "KeyError", "cancel_no_level")
        ELSE IF ~(order.size >= size)
        THEN Result(b, "AssertionError", "cancel_too_much")
        ELSE Cancel_decrement(b, r, side, order_id, price, size)

\* faulty variant: the order is looked up without the membership test
Book_cancel_strict(b, side, order_id, price, size) ==
    IF order_id \in DOMAIN b.orders_by_id
    THEN Cancel_known(b, side, order_id, price, size)
    ELSE Result(b, "KeyError", "cancel_unknown")

Book_cancel(b, side, order_id, price, size) ==
    IF order_id \in DOMAIN b.orders_by_id
    THEN Cancel_known(b, side, order_id, price, size)
    ELSE Result(b, "None", "cancel_unknown")

\* _modify after the side assertion, for the indexed order r
Modify_apply(b, r, ts_event, side, price, size) ==
    LET order == b.objs[r]
        update(bk) == [bk EXCEPT !.objs[r].ts_event = ts_event,
                                 !.objs[r].size = size,
                                 !.objs[r].price = price]
    IN  IF ~HasLevel(b, order.price, side)
        THEN Result(b, "KeyError", "modify_no_level")
        ELSE IF order.price # price
        THEN IF FirstEqual(b, Book_get_level(b, order.price, side), r) = 0
             THEN Result(b, "ValueError", "modify_not_in_level")
             ELSE LET b1 == LevelRemove(b, order.price, side, r)
                      emptied == Book_get_level(b1, order.price, side) = <<>>
                      b2 == IF emptied
                            THEN Book_remove_level(b1, order.price, side)
                            ELSE b1
                      b3 == Book_get_or_insert_level(b2, price, side)
                  IN  Result(update(LevelAppend(b3, price, side, r)), "None",
                             IF emptied THEN "modify_move_last" ELSE "modify_move")
        ELSE Result(update(b), "None", "modify_in_place")

\* faulty variant: the side of the event is not compared with the order's
Modify_known_any_side(b, ts_event, side, order_id, price, size) ==
    Modify_apply(b, b.orders_by_id[order_id], ts_event, side, price, size)

\* the body of _modify for an order id that is in the index
Modify_known(b, ts_event, side, order_id, price, size) ==
    LET r == b.orders_by_id[order_id]
    IN  IF ~(b.objs[r].side = side)
        THEN Result(b, "AssertionError", "modify_side")
        ELSE Modify_apply(b, r, ts_event, side, price, size)

Book_modify(b, ts_event, side, order_id, price, size) ==
    IF order_id \in DOMAIN b.orders_by_id
    THEN Modify_known(b, ts_event, side, order_id, price, size)
    ELSE Result(b, "None", "modify_unknown")

\* faulty variant: the side is not asserted
Book_apply_unasserted(b, e) ==
    IF e.action \in {"T", "F"}
    THEN Result(b, "None", "trade")
    ELSE IF e.action = "R"
    THEN Result(Book_clear(b), "None", "reset")
    ELSE IF e.price = UNDEF_PRICE /\ e.tob
    THEN Result(WithSideLevels(b, e.side, <<>>), "None", "tob_clear")
    ELSE IF e.action = "A"
    THEN Book_add(b, e.ts_event, e.side, e.order_id, e.price, e.size, e.tob)
    ELSE IF e.action = "C"
    THEN Book_cancel(b, e.side, e.order_id, e.price, e.size)
    ELSE IF e.action = "M"
    THEN Book_modify(b, e.ts_event, e.side, e.order_id, e.price, e.size)
    ELSE Result(b, "ValueError", "unknown_action")

\* faulty variant: the undefined price with the top-of-book flag is looked
\* at before the action
Book_apply_clear_first(b, e) ==
    IF e.price = UNDEF_PRICE /\ e.tob /\ (e.side = "A" \/ e.side = "B")
    THEN Result(WithSideLevels(b, e.side, <<>>), "None", "tob_clear")
    ELSE IF e.action \in {"T", "F"}
    THEN Result(b, "None", "trade")
    ELSE IF e.action = "R"
    THEN Result(Book_clear(b), "None", "reset")
    ELSE IF ~(e.side = "A" \/ e.side = "B")
    THEN Result(b, "AssertionError", "bad_side")
    ELSE IF e.action = "A"
    THEN Book_add(b, e.ts_event, e.side, e.order_id, e.price, e.size, e.tob)
    ELSE IF e.action = "C"
    THEN Book_cancel(b, e.side, e.order_id, e.price, e.size)
    ELSE IF e.action = "M"
    THEN Book_modify(b, e.ts_event, e.side, e.order_id, e.price, e.size)
    ELSE Result(b, "ValueError", "unknown_action")

\* faulty variant: a Fill takes its size off the resting order, as a Cancel
Book_apply_fill_cancels(b, e) ==
    IF e.action = "T"
    THEN Result(b, "None", "trade")
    ELSE IF e.action = "R"
    THEN Result(Book_clear(b), "None", "reset")
    ELSE IF ~(e.side = "A" \/ e.side = "B")
    THEN Result(b, "AssertionError", "bad_side")
    ELSE IF e.price = UNDEF_PRICE /\ e.tob
    THEN Result(WithSideLevels(b, e.side, <<>>), "None", "tob_clear")
    ELSE IF e.action = "A"
    THEN Book_add(b, e.ts_event, e.side, e.order_id, e.price, e.size, e.tob)
    ELSE IF e.action \in {"C", "F"}
    THEN Book_cancel(b, e.side, e.order_id, e.price, e.size)
    ELSE IF e.action = "M"
    THEN Book_modify(b, e.ts_event, e.side, e.order_id, e.price, e.size)
    ELSE Result(b, "ValueError", "unknown_action")

Book_apply(b, e) ==
    IF e.action \in {"T", "F"}
    THEN Result(b, "None", "trade")
    ELSE IF e.action = "R"
    THEN Result(Book_clear(b), "None", "reset")
    ELSE IF ~(e.side = "A" \/ e.side = "B")
    THEN Result(b, "AssertionError", "bad_side")
    ELSE IF e.price = UNDEF_PRICE /\ e.tob
    THEN Result(WithSideLevels(b, e.side, <<>>), "None", "tob_clear")
    ELSE IF e.action = "A"
    THEN Book_add(b, e.ts_event, e.side, e.order_id, e.price, e.size, e.tob)
    ELSE IF e.action = "C"
    THEN Book_cancel(b, e.side, e.order_id, e.price, e.size)
    ELSE IF e.action = "M"
    THEN Book_modify(b, e.ts_event, e.side, e.order_id, e.price, e.size)
    ELSE Result(b, "ValueError", "unknown_action")

\* the references held by the index and by the level lists
Held(b) ==
    Range(b.orders_by_id)
        \cup UNION {Range(b.offers[p]) : p \in DOMAIN b.offers}
        \cup UNION {Range(b.bids[p]) : p \in DOMAIN b.bids}

\* an Order object lives as long as the index or a level list refers to it
Collect(b) == [b EXCEPT !.objs = [r \in Held(b) |-> b.objs[r]]]

\* the keys of a SortedDict in ascending order
RECURSIVE Ascending(_)
Ascending(S) == IF S = {} THEN <<>> ELSE <<Min(S)>> \o Ascending(S \ {Min(S)})

\* the number of entries of the level lists of one side, and of the book
RECURSIVE EntriesOf(_, _)
EntriesOf(levels, keys) ==
    IF keys = {} THEN 0
    ELSE LET p == Min(keys) IN Len(levels[p]) + EntriesOf(levels, keys \ {p})

Resting(b) ==
    EntriesOf(b.bids, DOMAIN b.bids) + EntriesOf(b.offers, DOMAIN b.offers)

(* ------------------------------- queries ------------------------------ *)

\* an optional value: None is the empty sequence, a value x is <<x>>
None == <<>>

Some(x) == <<x>>

PriceLevel(price, size, count, ts_event) ==
    [price |-> price, size |-> size, count |-> count, ts_event |-> ts_event]

\* faulty variant: the orders with the top-of-book flag are counted too
LevelOrders_level_all_members(b, price, q) ==
    PriceLevel(price,
               SumSeq([i \in DOMAIN q |-> b.objs[q[i]].size]),
               Len(q),
               Max({b.objs[q[i]].ts_event : i \in DOMAIN q}))

\* LevelOrders.level of the list q kept under the key price; max() of an
\* empty list raises ValueError, which no caller reaches (see C3)
LevelOrders_level(b, price, q) ==
    PriceLevel(price,
               SumSeq([i \in DOMAIN q |-> b.objs[q[i]].size]),
               Cardinality({i \in DOMAIN q : ~b.objs[q[i]].is_tob}),
               Max({b.objs[q[i]].ts_event : i \in DOMAIN q}))

\* faulty variant: the bid keys are taken from the low end
Book_get_bid_level_ascending(b, idx) ==
    LET keys == Ascending(DOMAIN b.bids)
    IN  IF DOMAIN b.bids # {} /\ Len(keys) > idx
        THEN LET p == keys[idx + 1]
             IN  Some(LevelOrders_level(b, p, b.bids[p]))
        ELSE None

\* bids.peekitem(-(idx + 1)): the (idx+1)-th highest key
Book_get_bid_level(b, idx) ==
    LET keys == Ascending(DOMAIN b.bids)
    IN  IF DOMAIN b.bids # {} /\ Len(keys) > idx
        THEN LET p == keys[Len(keys) - idx]
             IN  Some(LevelOrders_level(b, p, b.bids[p]))
        ELSE None

\* offers.peekitem(idx): the (idx+1)-th lowest key
Book_get_ask_level(b, idx) ==
    LET keys == Ascending(DOMAIN b.offers)
    IN  IF DOMAIN b.offers # {} /\ Len(keys) > idx
        THEN LET p == keys[idx + 1]
             IN  Some(LevelOrders_level(b, p, b.offers[p]))
        ELSE None

Book_bbo(b) == <<Book_get_bid_level(b, 0), Book_get_ask_level(b, 0)>>

\* the queries raise where LevelOrders.level does: max() of an empty list
\* is a ValueError
LevelOrders_level_raises(q) == q = <<>>

Book_get_bid_level_raises(b, idx) ==
    LET keys == Ascending(DOMAIN b.bids)
    IN  /\ DOMAIN b.bids # {} /\ Len(keys) > idx
        /\ LevelOrders_level_raises(b.bids[keys[Len(keys) - idx]])

Book_get_ask_level_raises(b, idx) ==
    LET keys == Ascending(DOMAIN b.offers)
    IN  /\ DOMAIN b.offers # {} /\ Len(keys) > idx
        /\ LevelOrders_level_raises(b.offers[keys[idx + 1]])

Book_bbo_raises(b) ==
    Book_get_bid_level_raises(b, 0) \/ Book_get_ask_level_raises(b, 0)

\* BidAskPair(): both prices undefined, sizes and counts zero
BidAskPair ==
    [bid_px |-> UNDEF_PRICE, ask_px |-> UNDEF_PRICE,
     bid_sz |-> 0, ask_sz |-> 0, bid_ct |-> 0, ask_ct |-> 0]

\* the three assignments of get_snapshot for a bid, then for an ask; a
\* PriceLevel is always true, so "if bid:" tests for None
WithBid(pair, bid) ==
    IF bid # None
    THEN [pair EXCEPT !.bid_px = bid[1].price, !.bid_sz = bid[1].size,
                      !.bid_ct = bid[1].count]
    ELSE pair

WithAsk(pair, ask) ==
    IF ask # None
    THEN [pair EXCEPT !.ask_px = ask[1].price, !.ask_sz = ask[1].size,
                      !.ask_ct = ask[1].count]
    ELSE pair

\* faulty variant: the ask is filled in only where there is a bid
Book_get_snapshot_nested(b, level_count) ==
    [k \in 1 .. level_count |->
        IF Book_get_bid_level(b, k - 1) # None
        THEN WithAsk(WithBid(BidAskPair, Book_get_bid_level(b, k - 1)),
                     Book_get_ask_level(b, k - 1))
        ELSE BidAskPair]

Book_get_snapshot_raises(b, level_count) ==
    \E k \in 0 .. (level_count - 1) :
        Book_get_bid_level_raises(b, k) \/ Book_get_ask_level_raises(b, k)

\* get_snapshot: one pair per level of range(level_count)
Book_get_snapshot(b, level_count) ==
    [k \in 1 .. level_count |->
        WithAsk(WithBid(BidAskPair, Book_get_bid_level(b, k - 1)),
                Book_get_ask_level(b, k - 1))]

(* ------------------------------- Market ------------------------------- *)

\* Market(): books is an empty defaultdict
EmptyMarket == <<>>

\* what a call of a Market method leaves behind: the books, the value it
\* returned and the exception it raised ("None" when it returned)
MarketResult(m, value, e) == [market |-> m, value |-> value, err |-> e]

\* self.books[instrument_id]: the defaultdict makes the inner dict on the
\* first access
WithInstrument(m, instrument_id) ==
    IF instrument_id \in DOMAIN m THEN m ELSE DictSet(m, instrument_id, <<>>)

\* get_book: self.books[instrument_id][publisher_id], which makes the Book
\* on the first access; the Book is m2[instrument_id][publisher_id]
Market_get_book(m, instrument_id, publisher_id) ==
    LET m1 == WithInstrument(m, instrument_id)
    IN  IF publisher_id \in DOMAIN m1[instrument_id]
        THEN m1
        ELSE DictSet(m1, instrument_id,
                     DictSet(m1[instrument_id], publisher_id, EmptyBook))

\* the Book of a registered pair after the mutations made through the
\* reference get_book returned
WithBook(m, instrument_id, publisher_id, b) ==
    DictSet(m, instrument_id, DictSet(m[instrument_id], publisher_id, b))

\* faulty variant: a Reset clears the Books of the instrument on all venues
Market_apply_reset_instrument(m, instrument_id, publisher_id, e) ==
    LET m1 == Market_get_book(m, instrument_id, publisher_id)
        res == Book_apply(m1[instrument_id][publisher_id], e)
    IN  IF e.action = "R"
        THEN MarketResult(DictSet(m1, instrument_id,
                                  [v \in DOMAIN m1[instrument_id] |-> EmptyBook]),
                          None, "None")
        ELSE MarketResult(WithBook(m1, instrument_id, publisher_id, Collect(res.book)),
                          None, res.err)

\* faulty variant: a Reset takes the Book out of the Market, to be made
\* again by the next event
Market_apply_reset_removes(m, instrument_id, publisher_id, e) ==
    LET m1 == Market_get_book(m, instrument_id, publisher_id)
        res == Book_apply(m1[instrument_id][publisher_id], e)
    IN  IF e.action = "R"
        THEN MarketResult(DictSet(m1, instrument_id,
                                  DictPop(m1[instrument_id], publisher_id)),
                          None, "None")
        ELSE MarketResult(WithBook(m1, instrument_id, publisher_id, Collect(res.book)),
                          None, res.err)

Market_apply(m, instrument_id, publisher_id, e) ==
    LET m1 == Market_get_book(m, instrument_id, publisher_id)
        res == Book_apply(m1[instrument_id][publisher_id], e)
    IN  MarketResult(WithBook(m1, instrument_id, publisher_id, Collect(res.book)),
                     None, res.err)

\* the books of the instrument whose bbo()[idx] is not None
VenuesWithBest(books, idx) ==
    {v \in DOMAIN books : Book_bbo(books[v])[idx] # None}

\* faulty variant: the best levels of all venues are added up, whatever
\* their price
AggregatedSide_all_venues(books, idx) ==
    LET all_best == VenuesWithBest(books, idx)
        level(v) == Book_bbo(books[v])[idx][1]
    IN  IF all_best # {}
        THEN LET prices == {level(v).price : v \in all_best}
                 best_price == IF idx = 1 THEN Max(prices) ELSE Min(prices)
                 best == Ascending(all_best)
             IN  Some(PriceLevel(best_price,
                                 SumSeq([k \in DOMAIN best |-> level(best[k]).size]),
                                 SumSeq([k \in DOMAIN best |-> level(best[k]).count]),
                                 Max({level(best[k]).ts_event : k \in DOMAIN best})))
        ELSE None

\* faulty variant: a bid at or above the best ask of the venues is taken
\* for an error of the feed and left out of the result
AggregatedSide_uncrossed(books, idx) ==
    LET all_best == VenuesWithBest(books, idx)
        level(v) == Book_bbo(books[v])[idx][1]
        asks == {Book_bbo(books[v])[2][1].price : v \in VenuesWithBest(books, 2)}
    IN  IF all_best # {}
        THEN LET prices == {level(v).price : v \in all_best}
                 best_price == IF idx = 1 THEN Max(prices) ELSE Min(prices)
                 best == Ascending({v \in all_best : level(v).price = best_price})
             IN  IF idx = 1 /\ asks # {} /\ best_price >= Min(asks)
                 THEN None
                 ELSE Some(PriceLevel(best_price,
                                      SumSeq([k \in DOMAIN best |-> level(best[k]).size]),
                                      SumSeq([k \in DOMAIN best |-> level(best[k]).count]),
                                      Max({level(best[k]).ts_event : k \in DOMAIN best})))
        ELSE None

\* faulty variant: the aggregated level is built without a timestamp
AggregatedSide_no_timestamp(books, idx) ==
    LET all_best == VenuesWithBest(books, idx)
        level(v) == Book_bbo(books[v])[idx][1]
    IN  IF all_best # {}
        THEN LET prices == {level(v).price : v \in all_best}
                 best_price == IF idx = 1 THEN Max(prices) ELSE Min(prices)
                 best == Ascending({v \in all_best : level(v).price = best_price})
             IN  Some(PriceLevel(best_price,
                                 SumSeq([k \in DOMAIN best |-> level(best[k]).size]),
                                 SumSeq([k \in DOMAIN best |-> level(best[k]).count]),
                                 0))
        ELSE None

\* one round of the loop of aggregated_bbo: idx 1 with max, idx 2 with min
AggregatedSide(books, idx) ==
    LET all_best == VenuesWithBest(books, idx)
        level(v) == Book_bbo(books[v])[idx][1]
    IN  IF all_best # {}
        THEN LET prices == {level(v).price : v \in all_best}
                 best_price == IF idx = 1 THEN Max(prices) ELSE Min(prices)
                 best == Ascending({v \in all_best : level(v).price = best_price})
             IN  Some(PriceLevel(best_price,
                                 SumSeq([k \in DOMAIN best |-> level(best[k]).size]),
                                 SumSeq([k \in DOMAIN best |-> level(best[k]).count]),
                                 Max({level(best[k]).ts_event : k \in DOMAIN best})))
        ELSE None

\* aggregated_bbo calls bbo() of every Book of the instrument
Market_aggregated_bbo_raises(m, instrument_id) ==
    \E v \in DOMAIN WithInstrument(m, instrument_id)[instrument_id] :
        Book_bbo_raises(m[instrument_id][v])

\* faulty variant: the Book of the first venue is looked up through get_book
Market_aggregated_bbo_get_book(m, instrument_id) ==
    LET m1 == Market_get_book(m, instrument_id, 1)
    IN  IF Market_aggregated_bbo_raises(m, instrument_id)
        THEN MarketResult(m1, None, "ValueError")
        ELSE MarketResult(m1,
                          <<AggregatedSide(m1[instrument_id], 1),
                            AggregatedSide(m1[instrument_id], 2)>>,
                          "None")

Market_aggregated_bbo(m, instrument_id) ==
    LET m1 == WithInstrument(m, instrument_id)
    IN  IF Market_aggregated_bbo_raises(m, instrument_id)
        THEN MarketResult(m1, None, "ValueError")
        ELSE MarketResult(m1,
                          <<AggregatedSide(m1[instrument_id], 1),
                            AggregatedSide(m1[instrument_id], 2)>>,
                          "None")

(* ------------------------------ behaviour ----------------------------- *)

\* the state of the book after Book.apply(e), whether it returned or raised
After(b, e) == Collect(Book_apply(b, e).book)

\* no event is in flight and no aggregated_bbo is running: the writer's
\* event, Order and Book before the event, and the reader's round, venues to
\* visit, all_best list, levels used and result
IdleRun ==
    [wpc |-> "idle", v |-> 1,
     e |-> [action |-> "T", side |-> "B", order_id |-> 1, price |-> 1,
            size |-> 0, ts_event |-> 1, tob |-> FALSE],
     r |-> 0, before |-> EmptyBook, werr |-> "None",
     rpc |-> "idle", idx |-> 1, todo |-> <<>>, all_best |-> <<>>,
     seen |-> <<>>, value |-> <<None, None>>, rerr |-> "None"]

Init ==
    /\ book = EmptyBook
    /\ market = EmptyMarket
    /\ run = IdleRun

ReachesAdd(e) ==
    /\ e.action = "A"
    /\ e.side \in BookSides
    /\ ~(e.price = UNDEF_PRICE /\ e.tob)

\* the model bounds the Order objects and the entries of the level lists: an
\* event that reaches _add is fed only while there are fewer than n of each
FeasibleIn(b, e, n) ==
    ReachesAdd(e) => Cardinality(DOMAIN b.objs) < n /\ Resting(b) < n

Feasible(b, e) == FeasibleIn(b, e, MaxOrders)

\* Book.apply of one event
Apply(e) ==
    /\ Feasible(book, e)
    /\ book' = After(book, e)
    /\ UNCHANGED <<market, run>>

\* the events fed to the book: the top-of-book flag comes with the undefined
\* price (the synthetic clear of one side) and with no other price
Inputs ==
    {e \in Events : /\ e.tob <=> e.price = UNDEF_PRICE
                    /\ e.order_id <= MaxOrderId
                    /\ e.ts_event <= MaxTs}

EventsOf(action) == {e \in Inputs : e.action = action}

ApplyAdd == \E e \in Inputs : e.action = "A" /\ Apply(e)

ApplyCancel == \E e \in Inputs : e.action = "C" /\ Apply(e)

ApplyModify == \E e \in Inputs : e.action = "M" /\ Apply(e)

ApplyReset == \E e \in Inputs : e.action = "R" /\ Apply(e)

ApplyTrade == \E e \in Inputs : e.action \in {"T", "F"} /\ Apply(e)

ApplyUnknown == \E e \in Inputs : e.action = "X" /\ Apply(e)

Next ==
    \/ ApplyAdd
    \/ ApplyCancel
    \/ ApplyModify
    \/ ApplyReset
    \/ ApplyTrade
    \/ ApplyUnknown

Spec == Init /\ [][Next]_vars

(* ------------------------ one side, longer lists ---------------------- *)

\* SpecQueue feeds Add, Cancel and Modify of the bid side only, with order
\* ids up to MaxQueueId and sizes up to MaxQueueSize, and lets the level
\* lists grow to MaxQueue entries.
QueueInputs ==
    {e \in Events : /\ e.action \in {"A", "C", "M"}
                    /\ e.side = "B"
                    /\ e.price # UNDEF_PRICE /\ ~e.tob
                    /\ e.order_id <= MaxQueueId
                    /\ e.size <= MaxQueueSize
                    /\ e.ts_event <= MaxTs}

QueueFeasible(b, e) == FeasibleIn(b, e, MaxQueue)

QueueApply(e) ==
    /\ QueueFeasible(book, e)
    /\ book' = After(book, e)
    /\ UNCHANGED <<market, run>>

QueueAdd == \E e \in QueueInputs : e.action = "A" /\ QueueApply(e)

QueueCancel == \E e \in QueueInputs : e.action = "C" /\ QueueApply(e)

QueueModify == \E e \in QueueInputs : e.action = "M" /\ QueueApply(e)

QueueNext ==
    \/ QueueAdd
    \/ QueueCancel
    \/ QueueModify

SpecQueue == Init /\ [][QueueNext]_vars

(* ------------------- one side, flags and timestamps ------------------- *)

\* SpecLevel feeds Add, Cancel and Modify of the bid side with every
\* combination of price (the undefined price included) and top-of-book flag
\* and with timestamps up to MaxLevelTs, for up to MaxLevelOrders orders.
LevelInputs ==
    {e \in Events : /\ e.action \in {"A", "C", "M"}
                    /\ e.side = "B"
                    /\ e.order_id <= MaxLevelId
                    /\ e.ts_event <= MaxLevelTs}

LevelFeasible(b, e) == FeasibleIn(b, e, MaxLevelOrders)

LevelApply(e) ==
    /\ LevelFeasible(book, e)
    /\ book' = After(book, e)
    /\ UNCHANGED <<market, run>>

LevelAdd == \E e \in LevelInputs : e.action = "A" /\ LevelApply(e)

LevelCancel == \E e \in LevelInputs : e.action = "C" /\ LevelApply(e)

LevelModify == \E e \in LevelInputs : e.action = "M" /\ LevelApply(e)

LevelNext ==
    \/ LevelAdd
    \/ LevelCancel
    \/ LevelModify

SpecLevel == Init /\ [][LevelNext]_vars

(* -------------------------- the Market of Books ----------------------- *)

\* the Books of the Market, as <<instrument, venue>> pairs
Registered(m) == {x \in (DOMAIN m) \X Venues : x[2] \in DOMAIN m[x[1]]}

\* the Order objects, or the list entries if there are more, of the Books
\* pairs
RECURSIVE OrdersIn(_, _)
OrdersIn(m, pairs) ==
    IF pairs = {} THEN 0
    ELSE LET x == CHOOSE y \in pairs : TRUE
             b == m[x[1]][x[2]]
         IN  Max({Cardinality(DOMAIN b.objs), Resting(b)})
                 + OrdersIn(m, pairs \ {x})

MarketOrders(m) == OrdersIn(m, Registered(m))

\* SpecMarket feeds events through Market.apply to the Books of MaxInstrument
\* instruments on MaxVenue venues and queries aggregated_bbo; the events
\* are bids of one size and one timestamp (a Reset and a Trade have one id
\* and one price, which Book.apply does not read for them), and the Books of
\* the Market hold up to MaxMarketOrders orders together.
MarketInputs ==
    {e \in Events : /\ e.action \in {"A", "C", "M", "R", "T"}
                    /\ e.side = "B"
                    /\ e.price # UNDEF_PRICE /\ ~e.tob
                    /\ e.order_id <= MaxMarketId
                    /\ e.size = 1
                    /\ e.ts_event = 1
                    /\ e.action \in {"R", "T"} => e.order_id = 1 /\ e.price = 1}

MarketFeasible(m, e) == ReachesAdd(e) => MarketOrders(m) < MaxMarketOrders

MarketApply(instrument_id, publisher_id, e) ==
    /\ MarketFeasible(market, e)
    /\ market' = Market_apply(market, instrument_id, publisher_id, e).market
    /\ UNCHANGED <<book, run>>

MarketAdd ==
    \E i \in Instruments, v \in Venues, e \in MarketInputs :
        e.action = "A" /\ MarketApply(i, v, e)

MarketCancel ==
    \E i \in Instruments, v \in Venues, e \in MarketInputs :
        e.action = "C" /\ MarketApply(i, v, e)

MarketModify ==
    \E i \in Instruments, v \in Venues, e \in MarketInputs :
        e.action = "M" /\ MarketApply(i, v, e)

MarketReset ==
    \E i \in Instruments, v \in Venues, e \in MarketInputs :
        e.action = "R" /\ MarketApply(i, v, e)

MarketTrade ==
    \E i \in Instruments, v \in Venues, e \in MarketInputs :
        e.action = "T" /\ MarketApply(i, v, e)

MarketQuery ==
    \E i \in Instruments :
        /\ market' = Market_aggregated_bbo(market, i).market
        /\ UNCHANGED <<book, run>>

MarketNext ==
    \/ MarketAdd
    \/ MarketCancel
    \/ MarketModify
    \/ MarketReset
    \/ MarketTrade
    \/ MarketQuery

SpecMarket == Init /\ [][MarketNext]_vars

(* -------------------- one instrument on several venues ---------------- *)

\* SpecAggregate feeds events with sizes up to MaxAggSize and timestamps up
\* to MaxAggTs to the Books of instrument 1 on MaxVenue venues, which hold up
\* to MaxAggOrders orders together, and queries aggregated_bbo.  A Cancel
\* has one timestamp and a Reset one of every field, which Book.apply does
\* not read for them.
AggInputs ==
    {e \in Events : /\ e.action \in {"A", "C", "M", "R"}
                    /\ e.side \in BookSides
                    /\ e.price # UNDEF_PRICE /\ ~e.tob
                    /\ e.order_id <= MaxAggId
                    /\ e.size >= 1 /\ e.size <= MaxAggSize
                    /\ e.ts_event <= MaxAggTs
                    /\ e.action = "C" => e.ts_event = 1
                    /\ e.action = "R" =>
                           /\ e.side = "B" /\ e.order_id = 1 /\ e.price = 1
                           /\ e.size = 1 /\ e.ts_event = 1}

AggFeasible(m, e) == ReachesAdd(e) => MarketOrders(m) < MaxAggOrders

AggApply(publisher_id, e) ==
    /\ AggFeasible(market, e)
    /\ market' = Market_apply(market, 1, publisher_id, e).market
    /\ UNCHANGED <<book, run>>

AggAdd == \E v \in Venues, e \in AggInputs : e.action = "A" /\ AggApply(v, e)

AggCancel == \E v \in Venues, e \in AggInputs : e.action = "C" /\ AggApply(v, e)

AggModify == \E v \in Venues, e \in AggInputs : e.action = "M" /\ AggApply(v, e)

AggReset == \E v \in Venues, e \in AggInputs : e.action = "R" /\ AggApply(v, e)

AggQuery ==
    /\ market' = Market_aggregated_bbo(market, 1).market
    /\ UNCHANGED <<book, run>>

AggNext ==
    \/ AggAdd
    \/ AggCancel
    \/ AggModify
    \/ AggReset
    \/ AggQuery

SpecAggregate == Init /\ [][AggNext]_vars

(* ------------------ two venues, both sides, one order id -------------- *)

\* SpecSides feeds Add, Cancel and Modify events of both sides, of one size
\* and one timestamp and with order ids up to MaxMarketId, to the Books of
\* instrument 1 on MaxVenue venues, which hold up to MaxMarketOrders orders
\* together, and queries aggregated_bbo.
SidesInputs ==
    {e \in Events : /\ e.action \in {"A", "C", "M"}
                    /\ e.side \in BookSides
                    /\ e.price # UNDEF_PRICE /\ ~e.tob
                    /\ e.order_id <= MaxMarketId
                    /\ e.size = 1
                    /\ e.ts_event = 1}

SidesApply(publisher_id, e) ==
    /\ MarketFeasible(market, e)
    /\ market' = Market_apply(market, 1, publisher_id, e).market
    /\ UNCHANGED <<book, run>>

SidesAdd == \E v \in Venues, e \in SidesInputs : e.action = "A" /\ SidesApply(v, e)

SidesCancel == \E v \in Venues, e \in SidesInputs : e.action = "C" /\ SidesApply(v, e)

SidesModify == \E v \in Venues, e \in SidesInputs : e.action = "M" /\ SidesApply(v, e)

SidesQuery ==
    /\ market' = Market_aggregated_bbo(market, 1).market
    /\ UNCHANGED <<book, run>>

SidesNext ==
    \/ SidesAdd
    \/ SidesCancel
    \/ SidesModify
    \/ SidesQuery

SpecSides == Init /\ [][SidesNext]_vars

(* --------------- aggregated_bbo beside a writer, step by step --------- *)

\* what one statement of the writer leaves: the Book, the next position and
\* the exception raised
Step(b, pc, e) == [book |-> b, pc |-> pc, err |-> e]

\* the first statements of _add, _cancel and _modify, up to and with their
\* first write: the index entry of the new Order; the decrement of the
\* size; the removal from the old list or, at the same price, the new
\* timestamp.  r is the Order the handler holds.
WriterStart(b, e, r) ==
    IF e.action = "A"
    THEN Step([b EXCEPT !.objs = DictSet(@, r, Order(e.order_id, e.side, e.price,
                                                     e.size, e.ts_event, e.tob)),
                        !.orders_by_id = DictSet(@, e.order_id, r)],
              "add_level", "None")
    ELSE IF e.order_id \notin DOMAIN b.orders_by_id
    THEN Step(b, "done", "None")
    ELSE IF e.action = "C"
    THEN IF ~HasLevel(b, e.price, e.side)
         THEN Step(b, "done", "KeyError")
         ELSE IF ~(b.objs[r].size >= e.size)
         THEN Step(b, "done", "AssertionError")
         ELSE Step([b EXCEPT !.objs[r].size = @ - e.size],
                   IF b.objs[r].size - e.size = 0 THEN "cancel_pop" ELSE "done",
                   "None")
    ELSE IF ~(b.objs[r].side = e.side)
    THEN Step(b, "done", "AssertionError")
    ELSE IF ~HasLevel(b, b.objs[r].price, e.side)
    THEN Step(b, "done", "KeyError")
    ELSE IF b.objs[r].price # e.price
    THEN IF FirstEqual(b, Book_get_level(b, b.objs[r].price, e.side), r) = 0
         THEN Step(b, "done", "ValueError")
         ELSE Step(LevelRemove(b, b.objs[r].price, e.side, r), "modify_level", "None")
    ELSE Step([b EXCEPT !.objs[r].ts_event = e.ts_event], "modify_size", "None")

\* the statement at position pc of the handler of e
WriterStatement(b, pc, e, r) ==
    CASE pc = "start" -> WriterStart(b, e, r)
      [] pc = "add_level" ->
            Step(Book_get_or_insert_level(b, e.price, e.side), "add_append", "None")
      [] pc = "add_append" ->
            Step(LevelAppend(b, e.price, e.side, r), "done", "None")
      [] pc = "cancel_pop" ->
            Step([b EXCEPT !.orders_by_id = DictPop(@, e.order_id)],
                 "cancel_remove", "None")
      [] pc = "cancel_remove" ->
            IF FirstEqual(b, Book_get_level(b, e.price, e.side), r) = 0
            THEN Step(b, "done", "ValueError")
            ELSE Step(LevelRemove(b, e.price, e.side, r), "cancel_level", "None")
      [] pc = "cancel_level" ->
            Step(IF Book_get_level(b, e.price, e.side) = <<>>
                 THEN Book_remove_level(b, e.price, e.side) ELSE b,
                 "done", "None")
      [] pc = "modify_level" ->
            Step(IF Book_get_level(b, b.objs[r].price, e.side) = <<>>
                 THEN Book_remove_level(b, b.objs[r].price, e.side) ELSE b,
                 "modify_insert", "None")
      [] pc = "modify_insert" ->
            Step(Book_get_or_insert_level(b, e.price, e.side), "modify_append", "None")
      [] pc = "modify_append" ->
            Step(LevelAppend(b, e.price, e.side, r), "modify_ts", "None")
      [] pc = "modify_ts" ->
            Step([b EXCEPT !.objs[r].ts_event = e.ts_event], "modify_size", "None")
      [] pc = "modify_size" ->
            Step([b EXCEPT !.objs[r].size = e.size], "modify_price", "None")
      [] pc = "modify_price" ->
            Step([b EXCEPT !.objs[r].price = e.price], "done", "None")

\* the Order a handler holds: the new one of _add, the indexed one otherwise
WriterOrder(b, e) ==
    IF e.action = "A" THEN NewRef(b)
    ELSE IF e.order_id \in DOMAIN b.orders_by_id THEN b.orders_by_id[e.order_id]
    ELSE 0

\* the PriceLevel made of the levels of all_best, none of which is None
AggregateLevels(all_best, idx) ==
    LET prices == {all_best[k][1].price : k \in DOMAIN all_best}
        best_price == IF idx = 1 THEN Max(prices) ELSE Min(prices)
        best == {k \in DOMAIN all_best : all_best[k][1].price = best_price}
    IN  PriceLevel(best_price,
                   SumSeq([k \in DOMAIN all_best |->
                              IF k \in best THEN all_best[k][1].size ELSE 0]),
                   SumSeq([k \in DOMAIN all_best |->
                              IF k \in best THEN all_best[k][1].count ELSE 0]),
                   Max({all_best[k][1].ts_event : k \in best}))

\* SpecRace builds the Books of instrument 1 with whole events, then starts
\* aggregated_bbo(1) and Book.apply of one event for a registered Book
\* together and lets them take turns, the writer one statement and the
\* reader one call of bbo() at a time.  The events are bids with order ids
\* up to MaxMarketId and sizes up to MaxAggSize.
RaceInputs ==
    {e \in Events : /\ e.action \in {"A", "C", "M"}
                    /\ e.side = "B"
                    /\ e.price # UNDEF_PRICE /\ ~e.tob
                    /\ e.order_id <= MaxMarketId
                    /\ e.size >= 1 /\ e.size <= MaxAggSize
                    /\ e.ts_event <= MaxTs}

Idle == run.wpc = "idle" /\ run.rpc = "idle"

\* Market.apply of one event, alone
RaceApply ==
    \E v \in Venues, e \in RaceInputs :
        /\ Idle
        /\ MarketFeasible(market, e)
        /\ market' = Market_apply(market, 1, v, e).market
        /\ UNCHANGED <<book, run>>

\* aggregated_bbo(1) is called and Market.apply has fetched the Book of v:
\* the reader is at the first Book of the first round
RaceBegin ==
    \E v \in Venues, e \in RaceInputs :
        /\ Idle
        /\ 1 \in DOMAIN market /\ v \in DOMAIN market[1]
        /\ MarketFeasible(market, e)
        /\ run' = [IdleRun EXCEPT !.wpc = "start", !.v = v, !.e = e,
                                  !.r = WriterOrder(market[1][v], e),
                                  !.before = market[1][v],
                                  !.rpc = "test",
                                  !.todo = Ascending(DOMAIN market[1])]
        /\ UNCHANGED <<book, market>>

\* one statement of the writer
WriterStep ==
    /\ run.wpc \notin {"idle", "done"}
    /\ LET res == WriterStatement(market[1][run.v], run.wpc, run.e, run.r)
       IN  /\ market' = WithBook(market, 1, run.v, res.book)
           /\ run' = [run EXCEPT !.wpc = res.pc, !.werr = res.err]
    /\ UNCHANGED book

\* the reader leaves the Book at the head of todo
NextBook(rn) ==
    [rn EXCEPT !.todo = Tail(@),
               !.rpc = IF Tail(rn.todo) = <<>> THEN "reduce" ELSE "test"]

\* "if b.bbo()[idx] is not None" of the list comprehension, for the Book at
\* the head of todo
ReaderTest ==
    /\ run.rpc = "test"
    /\ LET v == Head(run.todo)
           b == market[1][v]
       IN  run' = IF Book_bbo_raises(b)
                  THEN [run EXCEPT !.rerr = "ValueError", !.rpc = "done"]
                  ELSE IF Book_bbo(b)[run.idx] = None
                  THEN NextBook([run EXCEPT !.seen =
                                    Append(@, [idx |-> run.idx, v |-> v, level |-> None])])
                  ELSE [run EXCEPT !.rpc = "use"]
    /\ UNCHANGED <<book, market>>

\* "b.bbo()[idx]", the element of the list comprehension, for that Book
ReaderUse ==
    /\ run.rpc = "use"
    /\ LET v == Head(run.todo)
           b == market[1][v]
       IN  run' = IF Book_bbo_raises(b)
                  THEN [run EXCEPT !.rerr = "ValueError", !.rpc = "done"]
                  ELSE NextBook([run EXCEPT
                           !.all_best = Append(@, Book_bbo(b)[run.idx]),
                           !.seen = Append(@, [idx |-> run.idx, v |-> v,
                                               level |-> Book_bbo(b)[run.idx]])])
    /\ UNCHANGED <<book, market>>

\* the rest of the round: the aggregate of all_best, where "b.price" of a
\* None is an AttributeError; then the next round or the return
ReaderReduce ==
    /\ run.rpc = "reduce"
    /\ run' = IF \E k \in DOMAIN run.all_best : run.all_best[k] = None
              THEN [run EXCEPT !.rerr = "AttributeError", !.rpc = "done"]
              ELSE LET agg == IF run.all_best # <<>>
                              THEN Some(AggregateLevels(run.all_best, run.idx))
                              ELSE None
                       rn == [run EXCEPT !.value[run.idx] = agg]
                   IN  IF run.idx = 1
                       THEN [rn EXCEPT !.idx = 2, !.all_best = <<>>,
                                       !.todo = Ascending(DOMAIN market[1]),
                                       !.rpc = "test"]
                       ELSE [rn EXCEPT !.rpc = "done"]
    /\ UNCHANGED <<book, market>>

\* both have returned or raised
RaceEnd ==
    /\ run.wpc = "done" /\ run.rpc = "done"
    /\ run' = IdleRun
    /\ market' = WithBook(market, 1, run.v, Collect(market[1][run.v]))
    /\ UNCHANGED book

RaceNext ==
    \/ RaceApply
    \/ RaceBegin
    \/ WriterStep
    \/ ReaderTest
    \/ ReaderUse
    \/ ReaderReduce
    \/ RaceEnd

SpecRace == Init /\ [][RaceNext]_vars

(* ------------------------- vocabulary of the claims ------------------- *)

\* the places <<side, price, position>> of the level lists
AllPlaces(b) ==
    UNION {UNION {{<<s, p, i>> : i \in DOMAIN Book_side_levels(b, s)[p]} :
                    p \in DOMAIN Book_side_levels(b, s)} : s \in BookSides}

\* the places at which the Order object r sits
PlacesOf(b, r) == {x \in AllPlaces(b) : Book_side_levels(b, x[1])[x[2]][x[3]] = r}

Indexed(b, r) == r \in Range(b.orders_by_id)

\* the list under (side, price), empty when the price is no key
ListAt(b, side, price) ==
    IF HasLevel(b, price, side) THEN Book_get_level(b, price, side) ELSE <<>>

NoEmptyLevel(b) ==
    \A s \in BookSides : \A p \in DOMAIN Book_side_levels(b, s) :
        Book_side_levels(b, s)[p] # <<>>

\* the events that Book.apply hands to _add, _cancel and _modify
Dispatched(action) ==
    {e \in Events :
        /\ e.action = action
        /\ e.side \in BookSides
        /\ ~(e.price = UNDEF_PRICE /\ e.tob)}

(* --------------------------------- C1 --------------------------------- *)

\* C1 (as claimed): in every reachable state an Order object is in the
\* order-id index iff it sits at exactly one place of the level lists, and
\* that place is on the order's side under the order's price.
C1_IndexIffOneLevel ==
    \A r \in DOMAIN book.objs :
        Indexed(book, r) <=>
            /\ Cardinality(PlacesOf(book, r)) = 1
            /\ \A x \in PlacesOf(book, r) :
                   x[1] = book.objs[r].side /\ x[2] = book.objs[r].price

(* --------------------------------- C2 --------------------------------- *)

\* sum of the sizes of the indexed orders with that side and price
RECURSIVE IndexSize(_, _, _, _)
IndexSize(b, ids, side, price) ==
    IF ids = {} THEN 0
    ELSE LET i == Min(ids)
             o == b.objs[b.orders_by_id[i]]
         IN  (IF o.side = side /\ o.price = price THEN o.size ELSE 0)
                 + IndexSize(b, ids \ {i}, side, price)

LevelSize(b, side, price) ==
    IF HasLevel(b, price, side)
    THEN LevelOrders_level(b, price, Book_get_level(b, price, side)).size
    ELSE 0

\* C2 (as claimed): after every event, for every (side, price), the sizes of
\* the indexed orders with that side and price add up to the size of the
\* PriceLevel derived from the list under (side, price), zero without one.
C2_IndexSizeIsLevelSize ==
    \A s \in BookSides : \A p \in Prices :
        IndexSize(book, DOMAIN book.orders_by_id, s, p) = LevelSize(book, s, p)

(* --------------------------------- C3 --------------------------------- *)

\* a Cancel that takes the whole remaining size of the only order of the
\* level it names
CancelsLast(b, e) ==
    /\ e \in Dispatched("C")
    /\ e.order_id \in DOMAIN b.orders_by_id
    /\ ListAt(b, e.side, e.price) = <<b.orders_by_id[e.order_id]>>
    /\ b.objs[b.orders_by_id[e.order_id]].size = e.size

\* a Modify that changes the price of the only order of its level
MovesLast(b, e) ==
    /\ e \in Dispatched("M")
    /\ e.order_id \in DOMAIN b.orders_by_id
    /\ LET o == b.objs[b.orders_by_id[e.order_id]]
       IN  /\ o.side = e.side
           /\ o.price # e.price
           /\ ListAt(b, o.side, o.price) = <<b.orders_by_id[e.order_id]>>

\* C3: every list kept in the bid map or the offer map has an entry, now and
\* after any event; a Cancel that removes the last order of a level and a
\* Modify that moves the last order out of a level leave no key for that
\* price in the side's map.
C3_NoEmptyLevel ==
    /\ NoEmptyLevel(book)
    /\ \A e \in Inputs :
           Feasible(book, e) =>
               /\ NoEmptyLevel(After(book, e))
               /\ CancelsLast(book, e) => ~HasLevel(After(book, e), e.price, e.side)
               /\ MovesLast(book, e) =>
                      ~HasLevel(After(book, e),
                                book.objs[book.orders_by_id[e.order_id]].price,
                                e.side)

C3_Witness ==
    /\ \E e \in Inputs :
           /\ CancelsLast(book, e)
           /\ e.size > 0
           /\ Resting(After(book, e)) < Resting(book)
    /\ \E e \in Inputs : MovesLast(book, e) /\ HasLevel(After(book, e), e.price, e.side)

(* --------------------------------- C4 --------------------------------- *)

\* C4 (as claimed): a Cancel of an indexed order for its whole remaining
\* size takes the id out of the index and the order out of every level
\* list, and if the order was the only one of its resting level the price is
\* no key of that side's map any more.
C4_FullCancelRemoves ==
    \A e \in Dispatched("C") :
        (/\ e.order_id \in DOMAIN book.orders_by_id
         /\ book.objs[book.orders_by_id[e.order_id]].size = e.size)
        => LET r == book.orders_by_id[e.order_id]
               o == book.objs[r]
               a == After(book, e)
           IN  /\ e.order_id \notin DOMAIN a.orders_by_id
               /\ PlacesOf(a, r) = {}
               /\ ListAt(book, o.side, o.price) = <<r>>
                      => ~HasLevel(a, o.price, o.side)

(* --------------------------------- C5 --------------------------------- *)

\* the Order objects other than r are what they were
OthersUnchanged(b, a, r) ==
    \A x \in DOMAIN b.objs \ {r} : x \in DOMAIN a.objs /\ a.objs[x] = b.objs[x]

\* C5 (as claimed): a Modify of an indexed order with the order's side, at
\* the order's price, leaves every level list as it was and changes only
\* the order's size and timestamp; at another price it takes the order out
\* of its old list and makes it the last entry of the list under the new
\* price on the same side, with price, size and timestamp from the event.
C5_ModifyKeepsOrMoves ==
    \A e \in Dispatched("M") :
        (/\ e.order_id \in DOMAIN book.orders_by_id
         /\ book.objs[book.orders_by_id[e.order_id]].side = e.side)
        => LET r == book.orders_by_id[e.order_id]
               o == book.objs[r]
               a == After(book, e)
               q == ListAt(a, e.side, e.price)
           IN  /\ r \in DOMAIN a.objs
               /\ a.objs[r] = [o EXCEPT !.price = e.price, !.size = e.size,
                                        !.ts_event = e.ts_event]
               /\ a.orders_by_id = book.orders_by_id
               /\ OthersUnchanged(book, a, r)
               /\ o.price = e.price => a.bids = book.bids /\ a.offers = book.offers
               /\ o.price # e.price =>
                      /\ r \notin Range(ListAt(a, o.side, o.price))
                      /\ q # <<>>
                      /\ q[Len(q)] = r

(* --------------------------------- C6 --------------------------------- *)

\* every entry of x in the list q comes before every entry of y
Precedes(q, x, y) ==
    \A i, j \in DOMAIN q : (q[i] = x /\ q[j] = y) => i < j

\* e is a Modify that changes the price of the indexed order x
PriceChangingModifyOf(b, e, x) ==
    /\ e \in Dispatched("M")
    /\ e.order_id \in DOMAIN b.orders_by_id
    /\ b.orders_by_id[e.order_id] = x
    /\ b.objs[x].price # e.price

\* the Add e put a new Order object at the tail of the list under its
\* (side, price), after the entries that were there
AddedAtTail(b, e, a) ==
    LET q == ListAt(b, e.side, e.price)
        q2 == ListAt(a, e.side, e.price)
    IN  /\ Len(q2) = Len(q) + 1
        /\ SubSeq(q2, 1, Len(q)) = q
        /\ q2[Len(q2)] \notin DOMAIN b.objs
        /\ a.orders_by_id[e.order_id] = q2[Len(q2)]
        /\ a.objs[q2[Len(q2)]] =
               Order(e.order_id, e.side, e.price, e.size, e.ts_event, e.tob)

\* two orders that are in the list under (s, p) before and after e are in
\* the same order before and after: the one that was ahead is not behind
SameOrderAt(b, e, a, s, p) ==
    LET q == ListAt(b, s, p)
        q2 == ListAt(a, s, p)
    IN  \A x, y \in Range(q) \cap Range(q2) :
            (x # y /\ ~PriceChangingModifyOf(b, e, x) /\ ~PriceChangingModifyOf(b, e, y))
                => /\ Precedes(q, x, y) => ~Precedes(q2, y, x)
                   /\ (Len(q) = Cardinality(Range(q)) /\ Len(q2) = Cardinality(Range(q2)))
                          => (Precedes(q, x, y) <=> Precedes(q2, x, y))

\* C6: time priority is FIFO.  An Add puts the new order at the tail of the
\* list of its (side, price); any two orders that are in the same list
\* before and after an event keep their relative order, unless the event is
\* a Modify that changes the price of one of them.
C6_Fifo ==
    \A e \in QueueInputs :
        QueueFeasible(book, e) =>
            /\ e \in Dispatched("A") => AddedAtTail(book, e, After(book, e))
            /\ \A s \in BookSides : \A p \in Prices :
                   SameOrderAt(book, e, After(book, e), s, p)

\* three indexed orders in one list: the one in the middle is cancelled and
\* the other two stay in their order; the first gets a new size and stays
\* first; the first gets a new price and goes behind the order of that price
C6_Witness ==
    \E p \in Prices :
        LET q == ListAt(book, "B", p)
        IN  /\ Len(q) = 3
            /\ Cardinality(Range(q)) = 3
            /\ \A i \in DOMAIN q : Indexed(book, q[i]) /\ book.objs[q[i]].size > 0
            /\ \E e \in QueueInputs :
                   /\ e \in Dispatched("C")
                   /\ book.orders_by_id[e.order_id] = q[2]
                   /\ ListAt(After(book, e), "B", p) = <<q[1], q[3]>>
            /\ \E e \in QueueInputs :
                   /\ e \in Dispatched("M")
                   /\ book.orders_by_id[e.order_id] = q[1]
                   /\ book.objs[q[1]].size # e.size
                   /\ ListAt(After(book, e), "B", p) = q
                   /\ After(book, e).objs[q[1]].size = e.size
            /\ \E e \in QueueInputs :
                   /\ e \in Dispatched("M")
                   /\ book.orders_by_id[e.order_id] = q[1]
                   /\ ListAt(After(book, e), "B", p) = <<q[2], q[3]>>
                   /\ ListAt(After(book, e), "B", e.price) = <<q[1]>>

(* --------------------------------- C7 --------------------------------- *)

\* C7: from any reachable state a Reset returns without an error and leaves
\* a book with no bid level, no offer level and no indexed order, whose
\* bbo() is (None, None).
C7_ResetEmpties ==
    \A e \in EventsOf("R") :
        /\ Book_apply(book, e).err = "None"
        /\ After(book, e) = EmptyBook
        /\ Book_bbo(After(book, e)) = <<None, None>>

C7_Witness ==
    /\ DOMAIN book.orders_by_id # {}
    /\ DOMAIN book.bids # {}
    /\ DOMAIN book.offers # {}
    /\ Book_bbo(book)[1] # None
    /\ \E e \in EventsOf("R") : After(book, e) = EmptyBook

(* --------------------------------- C8 --------------------------------- *)

\* C8: a Cancel or a Modify with a defined price whose order id is not in
\* the index returns without an error and leaves the index, both maps and
\* every order as they were.
C8_UnknownIdNoOp ==
    \A e \in Dispatched("C") \cup Dispatched("M") :
        (e.price # UNDEF_PRICE /\ e.order_id \notin DOMAIN book.orders_by_id)
            => /\ Book_apply(book, e).err = "None"
               /\ Book_apply(book, e).book = book

C8_Witness ==
    /\ DOMAIN book.orders_by_id # {}
    /\ \E e \in Dispatched("C") :
           /\ e.order_id \notin DOMAIN book.orders_by_id
           /\ HasLevel(book, e.price, e.side)
           /\ e.size > 0
           /\ After(book, e) = book
    /\ \E e \in Dispatched("M") :
           /\ e.order_id \notin DOMAIN book.orders_by_id
           /\ HasLevel(book, e.price, e.side)
           /\ After(book, e) = book

(* --------------------------------- C9 --------------------------------- *)

\* a Cancel for more than the remaining size of an indexed order
CancelsTooMuch(b, e) ==
    /\ e \in Dispatched("C")
    /\ e.order_id \in DOMAIN b.orders_by_id
    /\ e.size > b.objs[b.orders_by_id[e.order_id]].size

ModifiesSide(b, e) ==
    /\ e \in Dispatched("M")
    /\ e.order_id \in DOMAIN b.orders_by_id
    /\ e.side # b.objs[b.orders_by_id[e.order_id]].side

\* C10: a Modify of an indexed order whose side differs from the side of the
\* order raises the side assertion and leaves the order (price, size,
\* timestamp, side, place in its list) and the rest of the book as they were.
C10_ModifySideRaises ==
    \A e \in Inputs :
        ModifiesSide(book, e) =>
            /\ Book_apply(book, e).err = "AssertionError"
            /\ Book_apply(book, e).book = book

C10_Witness ==
    \E e \in Inputs :
        /\ ModifiesSide(book, e)
        /\ PlacesOf(book, book.orders_by_id[e.order_id]) # {}
        /\ HasLevel(book, e.price, e.side)
        /\ e.size # book.objs[book.orders_by_id[e.order_id]].size
        /\ Book_apply(book, e).err = "AssertionError"

(* --------------------------------- C11 -------------------------------- *)

\* C11 (as claimed): for every event whose action is none of Add, Cancel,
\* Modify, Reset, Trade and Fill, whatever its side, price and flags,
\* Book.apply raises the unknown-action error (ValueError) and leaves the
\* book as it was.
C11_UnknownActionRaises ==
    \A e \in Events :
        e.action \notin KnownActions =>
            /\ Book_apply(book, e).err = "ValueError"
            /\ Book_apply(book, e).book = book

(* --------------------------------- C12 -------------------------------- *)

\* C12: a Trade or a Fill, whatever its side, order id, price, size and
\* flags, returns without an error and leaves the index, the bid map, the
\* offer map and every order as they were.
C12_TradeFillNoOp ==
    \A e \in Events :
        e.action \in {"T", "F"} =>
            /\ Book_apply(book, e).err = "None"
            /\ Book_apply(book, e).book = book

\* a Trade and a Fill that name a resting order, its level and its whole
\* size, and one with no side, the undefined price and the flag
C12_Witness ==
    /\ DOMAIN book.bids # {}
    /\ DOMAIN book.offers # {}
    /\ \A a \in {"T", "F"} : \E e \in Events :
           /\ e.action = a
           /\ e.order_id \in DOMAIN book.orders_by_id
           /\ LET r == book.orders_by_id[e.order_id]
              IN  /\ book.objs[r].size = e.size
                  /\ e.size > 0
                  /\ ListAt(book, e.side, e.price) = <<r>>
           /\ After(book, e) = book
    /\ \E e \in Events :
           /\ e.action = "F" /\ e.side = "N" /\ e.price = UNDEF_PRICE /\ e.tob
           /\ After(book, e) = book

(* --------------------------------- C13 -------------------------------- *)

OtherSide(side) == IF side = "A" THEN "B" ELSE "A"

\* the events that Book.apply takes as the synthetic clear of one side
SyntheticClears ==
    {e \in Events :
        /\ e.action \in {"A", "C", "M"}
        /\ e.side \in BookSides
        /\ e.price = UNDEF_PRICE /\ e.tob}

\* C13: an Add, Cancel or Modify with the undefined price, the top-of-book
\* flag and side s returns without an error, leaves side s without a level
\* and leaves the other side's map (its prices, its lists and the orders in
\* them) as it was.
C13_ClearOnlyThatSide ==
    \A e \in SyntheticClears :
        LET res == Book_apply(book, e)
            kept == Book_side_levels(book, OtherSide(e.side))
        IN  /\ res.err = "None"
            /\ DOMAIN Book_side_levels(res.book, e.side) = {}
            /\ Book_side_levels(res.book, OtherSide(e.side)) = kept
            /\ \A p \in DOMAIN kept : \A i \in DOMAIN kept[p] :
                   res.book.objs[kept[p][i]] = book.objs[kept[p][i]]

\* both sides have a level; each action clears each side and not the other
C13_Witness ==
    /\ DOMAIN book.bids # {}
    /\ DOMAIN book.offers # {}
    /\ \A a \in {"A", "C", "M"} : \A s \in BookSides :
           \E e \in SyntheticClears :
               /\ e.action = a /\ e.side = s
               /\ DOMAIN Book_side_levels(After(book, e), s) = {}
               /\ DOMAIN Book_side_levels(After(book, e), OtherSide(s)) # {}

(* --------------------------------- C14 -------------------------------- *)

\* the PriceLevel of the list under (side, price), which is a key
LevelAt(b, side, price) ==
    LevelOrders_level(b, price, Book_get_level(b, price, side))

\* the entries of the list q whose order has the top-of-book flag
TobEntries(b, q) == {i \in DOMAIN q : b.objs[q[i]].is_tob}

RECURSIVE SizeOfEntries(_, _)
SizeOfEntries(b, q) ==
    IF q = <<>> THEN 0 ELSE b.objs[Head(q)].size + SizeOfEntries(b, Tail(q))

\* lvl is the level of the list q under the key price
IsLevelOf(b, lvl, price, q) ==
    /\ lvl.price = price
    /\ lvl.size = SizeOfEntries(b, q)
    /\ lvl.count + Cardinality(TobEntries(b, q)) = Len(q)
    /\ \E i \in DOMAIN q : lvl.ts_event = b.objs[q[i]].ts_event
    /\ \A i \in DOMAIN q : lvl.ts_event >= b.objs[q[i]].ts_event

\* the level of (e.side, e.price) after the Add e, given the one before
LevelGrowsBy(b, e, a) ==
    LET new == LevelAt(a, e.side, e.price)
        old == IF HasLevel(b, e.price, e.side)
               THEN LevelAt(b, e.side, e.price)
               ELSE PriceLevel(e.price, 0, 0, 0)
    IN  /\ new.price = e.price
        /\ new.size = old.size + e.size
        /\ new.count = old.count + (IF e.tob THEN 0 ELSE 1)
        /\ new.ts_event = Max({old.ts_event, e.ts_event})

\* the scenario: two Adds at one bid price, then a Cancel of the first
ScenarioAdd1 ==
    [action |-> "A", side |-> "B", order_id |-> 1, price |-> 1, size |-> 2,
     ts_event |-> 1, tob |-> FALSE]

ScenarioAdd2 ==
    [action |-> "A", side |-> "B", order_id |-> 2, price |-> 1, size |-> 1,
     ts_event |-> 2, tob |-> FALSE]

ScenarioCancel1 ==
    [action |-> "C", side |-> "B", order_id |-> 1, price |-> 1, size |-> 2,
     ts_event |-> 2, tob |-> FALSE]

ScenarioBook == After(After(EmptyBook, ScenarioAdd1), ScenarioAdd2)

\* C14: the PriceLevel derived from a list has the price of its key, the sum
\* of the sizes of all its orders (top-of-book orders included), the number
\* of its orders without the top-of-book flag and the maximum of their
\* timestamps; an Add raises the level of its (side, price) by its size, by
\* one order unless it carries the flag, and to its timestamp if later.
\* After Add(1, Bid, p, 2) and Add(2, Bid, p, 1) the best bid is
\* (p, size 3, count 2); after Cancel(1, size 2) it is (p, size 1, count 1).
C14_LevelIsFold ==
    /\ \A s \in BookSides : \A p \in DOMAIN Book_side_levels(book, s) :
           IsLevelOf(book, LevelAt(book, s, p), p, Book_get_level(book, p, s))
    /\ \A e \in LevelInputs :
           (e \in Dispatched("A") /\ LevelFeasible(book, e))
               => LevelGrowsBy(book, e, After(book, e))
    /\ Book_bbo(ScenarioBook)[1] = Some(PriceLevel(1, 3, 2, 2))
    /\ Book_bbo(After(ScenarioBook, ScenarioCancel1))[1]
           = Some(PriceLevel(1, 1, 1, 2))

\* the book after the first Add of the scenario: the second Add and the
\* Cancel give the levels of the scenario, and an Add with the top-of-book
\* flag and a later timestamp adds to the size and not to the count
C14_Witness ==
    /\ book = After(EmptyBook, ScenarioAdd1)
    /\ LevelFeasible(book, ScenarioAdd2)
    /\ After(book, ScenarioAdd2) = ScenarioBook
    /\ Book_bbo(ScenarioBook)[1] = Some(PriceLevel(1, 3, 2, 2))
    /\ Book_bbo(After(ScenarioBook, ScenarioCancel1))[1]
           = Some(PriceLevel(1, 1, 1, 2))
    /\ \E e \in LevelInputs :
           /\ e \in Dispatched("A") /\ e.tob
           /\ e.price = 1 /\ e.size = 1 /\ e.ts_event = 2
           /\ LevelFeasible(book, e)
           /\ LevelAt(After(book, e), "B", 1) = PriceLevel(1, 3, 1, 2)

(* --------------------------------- C15 -------------------------------- *)

\* lvl is the level of side s that has exactly k better prices on its side:
\* higher ones for bids, lower ones for asks
IsKthBest(b, lvl, s, k) ==
    LET keys == DOMAIN Book_side_levels(b, s)
    IN  /\ lvl.price \in keys
        /\ Cardinality({p \in keys : IF s = "B" THEN p > lvl.price
                                                 ELSE p < lvl.price}) = k
        /\ IsLevelOf(b, lvl, lvl.price, Book_get_level(b, lvl.price, s))

\* what a depth query of side s answered for index k
IsDepthAnswer(b, ans, s, k) ==
    /\ ans = None <=> Cardinality(DOMAIN Book_side_levels(b, s)) <= k
    /\ ans # None => IsKthBest(b, ans[1], s, k)

\* C15: in every reachable state and for every index k >= 0, get_bid_level(k)
\* is the level of the (k+1)-th highest bid price and get_ask_level(k) the
\* level of the (k+1)-th lowest ask price, None exactly when the side has k
\* or fewer levels; bbo() is (get_bid_level(0), get_ask_level(0)): the level
\* of the highest bid price and the level of the lowest ask price.
C15_DepthByRank ==
    /\ \A k \in 0 .. MaxDepth :
           /\ IsDepthAnswer(book, Book_get_bid_level(book, k), "B", k)
           /\ IsDepthAnswer(book, Book_get_ask_level(book, k), "A", k)
    /\ Book_bbo(book) = <<Book_get_bid_level(book, 0), Book_get_ask_level(book, 0)>>
    /\ DOMAIN book.bids # {} =>
           Book_bbo(book)[1][1].price = Max(DOMAIN book.bids)
    /\ DOMAIN book.offers # {} =>
           Book_bbo(book)[2][1].price = Min(DOMAIN book.offers)

\* two bid prices and no ask: the higher one is at index 0, the lower one
\* at index 1, nothing at index 2
C15_Witness ==
    /\ Cardinality(DOMAIN book.bids) = 2
    /\ DOMAIN book.offers = {}
    /\ Book_get_bid_level(book, 0) # None
    /\ Book_get_bid_level(book, 1) # None
    /\ Book_get_bid_level(book, 0)[1].price > Book_get_bid_level(book, 1)[1].price
    /\ Book_get_bid_level(book, 2) = None
    /\ Book_bbo(book)[2] = None

(* --------------------------------- C16 -------------------------------- *)

\* the price, size and count a pair carries for one side, given the answer
\* of the depth query
SideOfPair(ans) ==
    IF ans = None THEN <<UNDEF_PRICE, 0, 0>>
    ELSE <<ans[1].price, ans[1].size, ans[1].count>>

\* C16: get_snapshot(n) returns n pairs; the pair of depth k has the price,
\* size and count of get_bid_level(k) and of get_ask_level(k); a side
\* without a level at depth k keeps the undefined price and zero size and
\* count, whatever the other side of the pair has.
C16_SnapshotPairs ==
    \A n \in 0 .. MaxDepth :
        LET snap == Book_get_snapshot(book, n)
        IN  /\ Len(snap) = n
            /\ DOMAIN snap = 1 .. n
            /\ \A k \in 0 .. (n - 1) :
                   /\ <<snap[k + 1].bid_px, snap[k + 1].bid_sz, snap[k + 1].bid_ct>>
                          = SideOfPair(Book_get_bid_level(book, k))
                   /\ <<snap[k + 1].ask_px, snap[k + 1].ask_sz, snap[k + 1].ask_ct>>
                          = SideOfPair(Book_get_ask_level(book, k))

\* two ask prices and no bid: the first two pairs carry the asks and the
\* default bid, the third pair is the default
C16_Witness ==
    /\ Cardinality(DOMAIN book.offers) = 2
    /\ DOMAIN book.bids = {}
    /\ LET snap == Book_get_snapshot(book, 3)
       IN  /\ Len(snap) = 3
           /\ snap[1].ask_px < snap[2].ask_px
           /\ snap[2].ask_px # UNDEF_PRICE
           /\ snap[1].ask_sz > 0 /\ snap[1].ask_ct = 1
           /\ snap[1].bid_px = UNDEF_PRICE /\ snap[1].bid_sz = 0
           /\ snap[3] = BidAskPair

(* --------------------------------- C17 -------------------------------- *)

\* the Books registered for an instrument, by venue
BooksOf(m, i) == IF i \in DOMAIN m THEN m[i] ELSE <<>>

SideOfIdx(idx) == IF idx = 1 THEN "B" ELSE "A"

\* the venues of the instrument whose Book has a level on the side
VenuesWithLevel(m, i, s) ==
    {v \in DOMAIN BooksOf(m, i) : DOMAIN Book_side_levels(BooksOf(m, i)[v], s) # {}}

\* the best level of a Book on a side that has a level
BestOf(b, s) ==
    LevelAt(b, s, IF s = "B" THEN Max(DOMAIN Book_side_levels(b, s))
                             ELSE Min(DOMAIN Book_side_levels(b, s)))

\* agg is the aggregate of the best levels of the instrument's venues on
\* side s: the best of their prices, and the sizes, counts and latest
\* timestamp of the venues whose best level has that price
IsAggregateOf(m, i, s, agg) ==
    LET with == VenuesWithLevel(m, i, s)
        best(v) == BestOf(BooksOf(m, i)[v], s)
        at == {v \in with : best(v).price = agg.price}
    IN  /\ at # {}
        /\ \A v \in with : IF s = "B" THEN best(v).price <= agg.price
                                        ELSE best(v).price >= agg.price
        /\ agg.size = SumSeq([v \in 1 .. MaxVenue |->
                                 IF v \in at THEN best(v).size ELSE 0])
        /\ agg.count = SumSeq([v \in 1 .. MaxVenue |->
                                  IF v \in at THEN best(v).count ELSE 0])
        /\ \E v \in at : agg.ts_event = best(v).ts_event
        /\ \A v \in at : agg.ts_event >= best(v).ts_event

\* C17: for every instrument and each side, aggregated_bbo returns None when
\* no Book of the instrument has a level on that side; otherwise a level
\* with the highest of the venues' best bid prices (the lowest of their
\* best ask prices), with the sum of the sizes and the sum of the counts of
\* the venues' best levels at that price and the latest of their
\* timestamps.  A venue whose best price is worse adds nothing.
C17_AggregateOfBest ==
    \A i \in Instruments : \A idx \in {1, 2} :
        LET res == Market_aggregated_bbo(market, i)
            agg == res.value[idx]
        IN  /\ res.err = "None"
            /\ agg = None <=> VenuesWithLevel(market, i, SideOfIdx(idx)) = {}
            /\ agg # None => IsAggregateOf(market, i, SideOfIdx(idx), agg[1])

\* two venues have their best ask at one price, with sizes 1 and 2 and with
\* different timestamps: the aggregated ask has size 3, count 2 and the
\* later timestamp; after a Modify that moves the ask of a venue to a higher
\* price the aggregated ask is the level of the other venue
C17_Witness ==
    /\ DOMAIN BooksOf(market, 1) = {1, 2}
    /\ \E p \in RealPrices :
           /\ Book_bbo(market[1][1])[2] = Some(PriceLevel(p, 1, 1, 1))
           /\ Book_bbo(market[1][2])[2] = Some(PriceLevel(p, 2, 1, 2))
           /\ Market_aggregated_bbo(market, 1).value
                  = <<None, Some(PriceLevel(p, 3, 2, 2))>>
           /\ \E e \in AggInputs :
                  /\ e \in Dispatched("M")
                  /\ e.price > p
                  /\ Market_aggregated_bbo(Market_apply(market, 1, 2, e).market, 1).value
                         = <<None, Some(PriceLevel(p, 1, 1, 1))>>

(* --------------------------------- C18 -------------------------------- *)

\* C18: for an instrument that has a Book on exactly one venue,
\* aggregated_bbo(instrument) is that Book's bbo() on both sides: None where
\* it is None, and the same price, size, count and timestamp.
C18_OneVenueIsBbo ==
    \A i \in DOMAIN market : \A v \in DOMAIN market[i] :
        DOMAIN market[i] = {v} =>
            Market_aggregated_bbo(market, i).value = Book_bbo(market[i][v])

\* one venue, a bid and an ask with different sizes and timestamps
C18_Witness ==
    /\ DOMAIN BooksOf(market, 1) = {2}
    /\ Book_bbo(market[1][2])[1] # None
    /\ Book_bbo(market[1][2])[2] # None
    /\ Book_bbo(market[1][2])[1][1].size # Book_bbo(market[1][2])[2][1].size
    /\ Book_bbo(market[1][2])[1][1].ts_event # Book_bbo(market[1][2])[2][1].ts_event
    /\ Market_aggregated_bbo(market, 1).value = Book_bbo(market[1][2])

(* --------------------------------- C19 -------------------------------- *)

Pairs == Instruments \X Venues

\* the Market after Market.apply of e for the pair x
AfterAt(m, x, e) == Market_apply(m, x[1], x[2], e).market

\* apart from the Book of x, which is registered, m2 is m
OnlyBookOf(m, m2, x) ==
    /\ DOMAIN m2 = DOMAIN m \cup {x[1]}
    /\ Registered(m2) = Registered(m) \cup {x}
    /\ \A y \in Registered(m) \ {x} : m2[y[1]][y[2]] = m[y[1]][y[2]]

\* an order of the pairs: each two different pairs are taken once; in C19
\* an element <<x, e, m>> of one is a pair, an event and the Market after
\* Market.apply of the event for the pair
PairBefore(x, y) == x[1] < y[1] \/ (x[1] = y[1] /\ x[2] < y[2])

\* C19: an event applied through Market.apply for the pair (i, v) changes
\* only the Book of (i, v): every other Book (index, maps, orders) is as it
\* was and no other Book appears or goes; a Reset for (i, v) empties that
\* Book and no other; two events for different pairs leave the same Market
\* in either order.
C19_OnlyThatBook ==
    LET one == {<<x, e, AfterAt(market, x, e)>> : x \in Pairs, e \in MarketInputs}
    IN  \A s \in one :
            /\ OnlyBookOf(market, s[3], s[1])
            /\ s[2].action = "R" => s[3][s[1][1]][s[1][2]] = EmptyBook
            /\ \A t \in one :
                   PairBefore(s[1], t[1]) =>
                       AfterAt(s[3], t[1], t[2]) = AfterAt(t[3], s[1], s[2])

\* the instrument has an order on each of two venues: a Reset for one of
\* them empties that Book and leaves the other; a Cancel for one and a
\* Modify for the other change both Books, the same way in either order
C19_Witness ==
    /\ Registered(market) = {<<1, 1>>, <<1, 2>>, <<2, 1>>}
    /\ DOMAIN market[1][1].orders_by_id # {}
    /\ Resting(market[1][1]) > 0
    /\ Resting(market[1][2]) > 0
    /\ \E e \in MarketInputs :
           /\ e.action = "R"
           /\ AfterAt(market, <<1, 1>>, e)[1][1] = EmptyBook
           /\ AfterAt(market, <<1, 1>>, e)[1][2] = market[1][2]
           /\ AfterAt(market, <<1, 1>>, e)[2][1] = market[2][1]
    /\ \E e \in MarketInputs : \E e2 \in MarketInputs :
           /\ e.action = "C" /\ e2.action = "M"
           /\ AfterAt(market, <<1, 1>>, e)[1][1] # market[1][1]
           /\ AfterAt(market, <<1, 2>>, e2)[1][2] # market[1][2]
           /\ AfterAt(AfterAt(market, <<1, 1>>, e), <<1, 2>>, e2)
                  = AfterAt(AfterAt(market, <<1, 2>>, e2), <<1, 1>>, e)

(* --------------------------------- C20 -------------------------------- *)

\* the queries of one Book return, and answer None for a side without a
\* level
BookQueriesAnswer(b) ==
    /\ ~Book_bbo_raises(b)
    /\ \A k \in 0 .. MaxDepth :
           /\ ~Book_get_bid_level_raises(b, k)
           /\ ~Book_get_ask_level_raises(b, k)
           /\ ~Book_get_snapshot_raises(b, k)
           /\ DOMAIN b.bids = {} => Book_get_bid_level(b, k) = None
           /\ DOMAIN b.offers = {} => Book_get_ask_level(b, k) = None
           /\ \A j \in 1 .. k :
                  LET pair == Book_get_snapshot(b, k)[j]
                  IN  /\ DOMAIN b.bids = {} =>
                             <<pair.bid_px, pair.bid_sz, pair.bid_ct>>
                                 = <<UNDEF_PRICE, 0, 0>>
                      /\ DOMAIN b.offers = {} =>
                             <<pair.ask_px, pair.ask_sz, pair.ask_ct>>
                                 = <<UNDEF_PRICE, 0, 0>>
    /\ DOMAIN b.bids = {} => Book_bbo(b)[1] = None
    /\ DOMAIN b.offers = {} => Book_bbo(b)[2] = None

\* C20: in every reachable state bbo, get_bid_level and get_ask_level with
\* an index >= 0, get_snapshot and aggregated_bbo return without an error
\* and answer None for a side that has no level; aggregated_bbo of an
\* instrument that no event was applied for returns (None, None).
C20_QueriesAnswer ==
    /\ \A x \in Registered(market) : BookQueriesAnswer(market[x[1]][x[2]])
    /\ \A i \in Instruments :
           LET res == Market_aggregated_bbo(market, i)
           IN  /\ res.err = "None"
               /\ \A idx \in {1, 2} :
                      VenuesWithLevel(market, i, SideOfIdx(idx)) = {}
                          => res.value[idx] = None
               /\ DOMAIN BooksOf(market, i) = {} => res.value = <<None, None>>

\* instrument 1 has a Book with a bid and no ask and a Book without any
\* order; no event was applied for instrument 2
C20_Witness ==
    /\ DOMAIN BooksOf(market, 1) = {1, 2}
    /\ 2 \notin DOMAIN market
    /\ Book_bbo(market[1][1])[1] # None
    /\ Book_bbo(market[1][1])[2] = None
    /\ Book_get_bid_level(market[1][1], 1) = None
    /\ Book_get_snapshot(market[1][1], 2)[2] = BidAskPair
    /\ Book_bbo(market[1][2]) = <<None, None>>
    /\ Market_aggregated_bbo(market, 1).value[1] # None
    /\ Market_aggregated_bbo(market, 1).value[2] = None
    /\ Market_aggregated_bbo(market, 2).value = <<None, None>>
    /\ Market_aggregated_bbo(market, 2).err = "None"

(* --------------------------------- C21 -------------------------------- *)

\* e is a Cancel or a Modify that returns without an error
ReplaysCleanly(b, e) ==
    /\ e.action \in {"C", "M"}
    /\ Book_apply(b, e).err = "None"

\* a Cancel of an indexed order for a part, not zero, of its remaining size
PartialCancel(b, e) ==
    /\ e \in Dispatched("C")
    /\ e.order_id \in DOMAIN b.orders_by_id
    /\ e.size > 0
    /\ e.size < b.objs[b.orders_by_id[e.order_id]].size

\* C21 (as claimed): a Cancel or a Modify that returned without an error,
\* applied a second time right away, leaves the book as the first
\* application left it.
C21_ReplayIdempotent ==
    \A e \in Inputs :
        ReplaysCleanly(book, e) => After(After(book, e), e) = After(book, e)

\* C21 (amended): a Modify, and a Cancel that is not a partial Cancel (its id
\* is not indexed, its size is zero, it takes the whole remaining size, or
\* it is the synthetic clear), that returned without an error returns
\* without an error the second time too and leaves the book as the first
\* application left it; a partial Cancel applied a second time raises or
\* takes its size off the order again.
C21_ReplayIdempotentUnlessPartial ==
    \A e \in Inputs :
        ReplaysCleanly(book, e) =>
            LET first == After(book, e)
            IN  IF PartialCancel(book, e)
                THEN \/ Book_apply(first, e).err # "None"
                     \/ After(first, e) # first
                ELSE /\ Book_apply(first, e).err = "None"
                     /\ After(first, e) = first

\* an indexed order of size 2 alone in its level: the Cancel of its whole
\* size and the Modify to another price are absorbed the second time, the
\* Cancel of size 1 takes the order out the second time
C21_Witness ==
    \E e \in Dispatched("C") \cap Inputs :
        /\ PartialCancel(book, e)
        /\ ReplaysCleanly(book, e)
        /\ e.order_id \in DOMAIN After(book, e).orders_by_id
        /\ e.order_id \notin DOMAIN After(After(book, e), e).orders_by_id
        /\ LET full == [e EXCEPT !.size = book.objs[book.orders_by_id[e.order_id]].size]
           IN  /\ ReplaysCleanly(book, full)
               /\ After(book, full) # book
               /\ After(After(book, full), full) = After(book, full)
        /\ \E m \in Dispatched("M") \cap Inputs :
               /\ m.order_id = e.order_id
               /\ m.price # e.price
               /\ ReplaysCleanly(book, m)
               /\ After(book, m) # book
               /\ After(After(book, m), m) = After(book, m)

(* --------------------------------- C22 -------------------------------- *)

\* C22 (as claimed): in every reachable state every Order object that the
\* index or a level list refers to has a size above zero.
C22_NoZeroSizeOrder ==
    \A r \in DOMAIN book.objs :
        (Indexed(book, r) \/ PlacesOf(book, r) # {}) => book.objs[r].size > 0

(* --------------------------------- C23 -------------------------------- *)

\* the Order object at a place of the level lists
OrderAt(b, x) == b.objs[Book_side_levels(b, x[1])[x[2]][x[3]]]

\* C23 (as claimed): in every reachable state the entries of the level
\* lists have different order ids, and there are as many entries as the
\* index has ids.
C23_UniqueIds ==
    /\ \A x, y \in AllPlaces(book) :
           x # y => OrderAt(book, x).id # OrderAt(book, y).id
    /\ Resting(book) = Cardinality(DOMAIN book.orders_by_id)

(* --------------------------------- C24 -------------------------------- *)

\* the Add e is at a price that crosses the best level of the other side
Crosses(b, e) ==
    /\ DOMAIN Book_side_levels(b, OtherSide(e.side)) # {}
    /\ IF e.side = "B" THEN e.price >= Min(DOMAIN b.offers)
                       ELSE e.price <= Max(DOMAIN b.bids)

\* every resting Order object of b is in a with the fields it had, and every
\* level list of b is in a with the entries it had, in their order; the
\* list under (side, price) may have one more entry at its tail
RestingKept(b, a, side, price) ==
    /\ \A x \in AllPlaces(b) :
           LET r == Book_side_levels(b, x[1])[x[2]][x[3]]
           IN  r \in DOMAIN a.objs /\ a.objs[r] = b.objs[r]
    /\ \A s \in BookSides : \A p \in Prices :
           IF s = side /\ p = price
           THEN /\ Len(ListAt(a, s, p)) = Len(ListAt(b, s, p)) + 1
                /\ SubSeq(ListAt(a, s, p), 1, Len(ListAt(b, s, p))) = ListAt(b, s, p)
           ELSE /\ ListAt(a, s, p) = ListAt(b, s, p)
                /\ HasLevel(a, p, s) <=> HasLevel(b, p, s)

\* the bid of bbo() is at or above its ask
CrossedBbo(b) ==
    /\ Book_bbo(b)[1] # None
    /\ Book_bbo(b)[2] # None
    /\ Book_bbo(b)[1][1].price >= Book_bbo(b)[2][1].price

\* C24: an Add returns without an error and leaves every resting order with
\* its price, size, timestamp and place in its list, on both sides, whether
\* or not its price crosses the other side; bbo() then reports the other
\* side's best level as before the Add, and an Add that crosses leaves a
\* book whose bbo() has its bid at or above its ask.
C24_AddNeverMatches ==
    \A e \in Dispatched("A") \cap Inputs :
        Feasible(book, e) =>
            LET a == After(book, e)
                idx == IF e.side = "B" THEN 2 ELSE 1
            IN  /\ Book_apply(book, e).err = "None"
                /\ RestingKept(book, a, e.side, e.price)
                /\ Book_bbo(a)[idx] = Book_bbo(book)[idx]
                /\ Crosses(book, e) => CrossedBbo(a)

\* an ask of a size above zero rests alone; a bid above its price is added,
\* and bbo() reports that bid over the unchanged ask
C24_Witness ==
    /\ DOMAIN book.bids = {}
    /\ Book_bbo(book)[2] # None
    /\ Book_bbo(book)[2][1].size > 0
    /\ \E e \in Dispatched("A") \cap Inputs :
           /\ e.side = "B"
           /\ e.size > 0
           /\ Feasible(book, e)
           /\ Crosses(book, e)
           /\ e.price > Book_bbo(book)[2][1].price
           /\ Book_bbo(After(book, e))[1][1].price = e.price
           /\ Book_bbo(After(book, e))[1][1].size = e.size
           /\ Book_bbo(After(book, e))[2] = Book_bbo(book)[2]

(* --------------------------------- C25 -------------------------------- *)

\* one side of a Book by value: for every price the orders of its list, in
\* their order
SideView(b, s) ==
    [p \in DOMAIN Book_side_levels(b, s) |->
        [k \in DOMAIN Book_side_levels(b, s)[p] |->
            b.objs[Book_side_levels(b, s)[p][k]]]]

\* the Book of a venue, an empty one for a venue that has none
BookOrEmpty(m, i, v) ==
    IF v \in DOMAIN BooksOf(m, i) THEN BooksOf(m, i)[v] ELSE EmptyBook

\* m and m2 agree on side s of the Books of instrument i
SidesAgree(m, m2, i, s) ==
    \A v \in Venues :
        SideView(BookOrEmpty(m, i, v), s) = SideView(BookOrEmpty(m2, i, v), s)

\* m with side s of every Book of instrument i emptied
StripSide(m, i, s) ==
    [j \in DOMAIN m |->
        IF j = i
        THEN [v \in DOMAIN m[j] |-> Collect(WithSideLevels(m[j][v], s, <<>>))]
        ELSE m[j]]

\* a venue's best bid is at or above a venue's best ask
CrossedVenues(m, i) ==
    \E v \in VenuesWithLevel(m, i, "B") : \E w \in VenuesWithLevel(m, i, "A") :
        BestOf(BooksOf(m, i)[v], "B").price >= BestOf(BooksOf(m, i)[w], "A").price

\* the result has, for side idx, the level it has with the other side of
\* every Book emptied
AloneGivesSame(m, idx) ==
    Market_aggregated_bbo(StripSide(m, 1, OtherSide(SideOfIdx(idx))), 1).value[idx]
        = Market_aggregated_bbo(m, 1).value[idx]

\* a result with a venue's best bid at or above a venue's best ask has both
\* levels, each the aggregate of its side
CrossedAsIs(m) ==
    LET res == Market_aggregated_bbo(m, 1)
    IN  CrossedVenues(m, 1) =>
            /\ res.value[1] # None
            /\ res.value[2] # None
            /\ IsAggregateOf(m, 1, "B", res.value[1][1])
            /\ IsAggregateOf(m, 1, "A", res.value[2][1])
            /\ res.value[1][1].price >= res.value[2][1].price

\* C25: the aggregated bid is the same in any two Markets that agree on the
\* bid sides of the instrument's Books, and the aggregated ask in any two
\* that agree on the ask sides: a step that leaves the side of every Book as
\* it was leaves that side of the result, and the Market with the other side
\* of every Book emptied gives the level the Market gives.  Where a venue's
\* best bid is at or above a venue's best ask the result has both levels,
\* each the aggregate of its side, with the bid price at or above the ask
\* price.
C25_SidesIndependent ==
    /\ [](/\ Market_aggregated_bbo(market, 1).err = "None"
          /\ AloneGivesSame(market, 1)
          /\ AloneGivesSame(market, 2)
          /\ CrossedAsIs(market))
    /\ [][\A idx \in {1, 2} :
              SidesAgree(market, market', 1, SideOfIdx(idx)) =>
                  Market_aggregated_bbo(market', 1).value[idx]
                      = Market_aggregated_bbo(market, 1).value[idx]]_vars

\* venue 1 has a bid above the ask of venue 2: the result has that bid and
\* that ask; an Add of an ask on venue 1 changes the aggregated ask and
\* leaves the aggregated bid, and the bid alone gives the same bid
C25_Witness ==
    /\ DOMAIN BooksOf(market, 1) = {1, 2}
    /\ DOMAIN market[1][1].offers = {} /\ DOMAIN market[1][2].bids = {}
    /\ Book_bbo(market[1][1])[1] # None
    /\ Book_bbo(market[1][2])[2] # None
    /\ Book_bbo(market[1][1])[1][1].price > Book_bbo(market[1][2])[2][1].price
    /\ Market_aggregated_bbo(market, 1).value
           = <<Book_bbo(market[1][1])[1], Book_bbo(market[1][2])[2]>>
    /\ Market_aggregated_bbo(StripSide(market, 1, "A"), 1).value
           = <<Book_bbo(market[1][1])[1], None>>
    /\ \E e \in SidesInputs :
           LET m2 == AfterAt(market, <<1, 2>>, e)
           IN  /\ e \in Dispatched("M")
               /\ e.side = "A"
               /\ SidesAgree(market, m2, 1, "B")
               /\ ~SidesAgree(market, m2, 1, "A")
               /\ Market_aggregated_bbo(m2, 1).value[2]
                      # Market_aggregated_bbo(market, 1).value[2]
               /\ Market_aggregated_bbo(m2, 1).value[1]
                      = Market_aggregated_bbo(market, 1).value[1]

(* --------------------------------- C26 -------------------------------- *)

\* the Book of x is registered after the step, and is the Book it was or
\* what Book.apply of one event made of it
BookKept(m, m2, x) ==
    /\ x \in Registered(m2)
    /\ \/ m2[x[1]][x[2]] = m[x[1]][x[2]]
       \/ \E e \in MarketInputs : m2[x[1]][x[2]] = After(m[x[1]][x[2]], e)

\* C26: after Market.apply of any event for a pair, whether Book.apply
\* returned or raised, the pair has a Book; aggregated_bbo registers no Book
\* and removes none; no step takes a registered Book out of the Market or
\* puts another in its place: a registered Book stays registered, as it was
\* or as Book.apply of the step's event left it, and after a Reset it is
\* registered and empty.
C26_RegisteredForGood ==
    /\ [](/\ \A x \in Pairs : \A e \in MarketInputs :
                 /\ x \in Registered(AfterAt(market, x, e))
                 /\ Registered(AfterAt(market, x, e)) = Registered(market) \cup {x}
                 /\ e.action = "R" => AfterAt(market, x, e)[x[1]][x[2]] = EmptyBook
          /\ \A i \in Instruments :
                 Registered(Market_aggregated_bbo(market, i).market)
                     = Registered(market))
    /\ [][\A x \in Registered(market) : BookKept(market, market', x)]_vars

\* no event was applied for the pair (2, 2), and a Trade registers its
\* Book; the Book of (1, 1) has an order and is registered, and empty, after
\* a Reset; aggregated_bbo of instrument 2 registers no Book
C26_Witness ==
    /\ Registered(market) = {<<1, 1>>}
    /\ Resting(market[1][1]) > 0
    /\ \E e \in MarketInputs :
           /\ e.action = "T"
           /\ Registered(AfterAt(market, <<2, 2>>, e)) = {<<1, 1>>, <<2, 2>>}
           /\ AfterAt(market, <<2, 2>>, e)[2][2] = EmptyBook
    /\ \E e \in MarketInputs :
           /\ e.action = "R"
           /\ Registered(AfterAt(market, <<1, 1>>, e)) = {<<1, 1>>}
           /\ AfterAt(market, <<1, 1>>, e)[1][1] = EmptyBook
    /\ Registered(Market_aggregated_bbo(market, 2).market) = {<<1, 1>>}

(* --------------------------------- C27 -------------------------------- *)

\* the Book of venue v before and after the event in flight
BookBefore(v) == IF v = run.v THEN run.before ELSE market[1][v]

BookAfter(v) == IF v = run.v THEN After(run.before, run.e) ELSE market[1][v]

\* the writer, run alone to its end, leaves what Book.apply leaves
WriterIsApply ==
    (run.wpc = "done" /\ run.rpc # "idle") =>
        /\ Collect(market[1][run.v]) = After(run.before, run.e)
        /\ run.werr = Book_apply(run.before, run.e).err

\* C27 (as claimed): while aggregated_bbo runs beside a writer that applies
\* one event to a Book of the instrument, it raises nothing, and the level
\* it has used for a Book, or its absence, is the best level of that Book
\* before the event or after it.
C27_ConsistentReads ==
    /\ run.rerr = "None"
    /\ \A k \in DOMAIN run.seen :
           LET s == run.seen[k]
           IN  \/ s.level = Book_bbo(BookBefore(s.v))[s.idx]
               \/ s.level = Book_bbo(BookAfter(s.v))[s.idx]

(* --------------------------------- C28 -------------------------------- *)

\* C28 (as claimed): an event on which Book.apply raises leaves the index,
\* both maps and every Order as they were before the call.
C28_ErrorLeavesBook ==
    \A e \in Inputs :
        Book_apply(book, e).err # "None" => Book_apply(book, e).book = book

(* --------------------------------- C29 -------------------------------- *)

\* a Cancel of an indexed order with the order's side and price and a size
\* up to its remaining size, or a Modify of an indexed order with its side
WellFormed(b, e) ==
    /\ e \in Dispatched("C") \cup Dispatched("M")
    /\ e.order_id \in DOMAIN b.orders_by_id
    /\ LET o == b.objs[b.orders_by_id[e.order_id]]
       IN  /\ e.side = o.side
           /\ e.action = "C" => e.price = o.price /\ e.size <= o.size

\* C29 (as claimed): in every reachable state a well-formed Cancel or Modify
\* returns without an error.
C29_WellFormedReturns ==
    \A e \in Inputs : WellFormed(book, e) => Book_apply(book, e).err = "None"

(* --------------------------------- C30 -------------------------------- *)

\* C30 (as claimed): a Cancel of an indexed order for less than its
\* remaining size returns without an error and takes exactly the event's
\* size off the order: the order keeps its id, side, price, timestamp and
\* flag, the index and both maps with all their lists are as they were, and
\* so is every other Order.
C30_PartialCancelOnlySize ==
    \A e \in Dispatched("C") \cap Inputs :
        (/\ e.order_id \in DOMAIN book.orders_by_id
         /\ e.size < book.objs[book.orders_by_id[e.order_id]].size)
        => LET r == book.orders_by_id[e.order_id]
               res == Book_apply(book, e)
           IN  /\ res.err = "None"
               /\ res.book.objs[r] = [book.objs[r] EXCEPT !.size = @ - e.size]
               /\ res.book.orders_by_id = book.orders_by_id
               /\ res.book.bids = book.bids
               /\ res.book.offers = book.offers
               /\ DOMAIN res.book.objs = DOMAIN book.objs
               /\ OthersUnchanged(book, res.book, r)

(* --------------------------------- C31 -------------------------------- *)

\* the events with the undefined price and the top-of-book flag
Flagged == {e \in Inputs : e.price = UNDEF_PRICE /\ e.tob}

\* C31: of the events with the undefined price and the top-of-book flag, an
\* Add, Cancel or Modify of a book side returns without an error, leaves
\* the index as it was, makes no Order and leaves every Order it keeps with
\* the fields it had; a Reset leaves an empty book; a Trade or Fill leaves
\* the book as it was.
C31_ClearBeforeAction ==
    \A e \in Flagged :
        LET res == Book_apply(book, e)
            a == After(book, e)
        IN  /\ e \in SyntheticClears =>
                   /\ res.err = "None"
                   /\ res.path = "tob_clear"
                   /\ a.orders_by_id = book.orders_by_id
                   /\ DOMAIN a.objs \subseteq DOMAIN book.objs
                   /\ \A r \in DOMAIN a.objs : a.objs[r] = book.objs[r]
                   /\ Resting(a) <= Resting(book)
            /\ e.action = "R" => res.err = "None" /\ a = EmptyBook
            /\ e.action \in {"T", "F"} => res.err = "None" /\ res.book = book

\* an indexed bid and an indexed ask rest; the flagged Add of an id that is
\* not indexed adds no index entry and no order, the flagged Cancel and
\* Modify of the indexed bid leave its size, price and timestamp, the
\* flagged Reset empties both sides and the index, the flagged Trade and
\* Fill change nothing
C31_Witness ==
    /\ DOMAIN book.bids # {} /\ DOMAIN book.offers # {}
    /\ Cardinality(DOMAIN book.orders_by_id) = 2
    /\ \A x \in AllPlaces(book) : OrderAt(book, x).size > 0
    /\ \E e \in Flagged :
           /\ e.action = "A" /\ e.side = "B"
           /\ After(book, e).orders_by_id = book.orders_by_id
           /\ DOMAIN After(book, e).bids = {}
           /\ After(book, e).offers = book.offers
    /\ \A act \in {"C", "M"} : \E e \in Flagged :
           /\ e.action = act /\ e.side = "B"
           /\ e.order_id \in DOMAIN book.orders_by_id
           /\ LET r == book.orders_by_id[e.order_id]
              IN  /\ book.objs[r].side = "B"
                  /\ e.size # book.objs[r].size
                  /\ After(book, e).objs[r] = book.objs[r]
    /\ \E e \in Flagged :
           e.action = "R" /\ e.side = "B" /\ After(book, e) = EmptyBook
    /\ \A act \in {"T", "F"} : \E e \in Flagged :
           e.action = act /\ e.side = "B" /\ After(book, e) = book

(* --------------------------------- C32 -------------------------------- *)

\* C32: an Add, Cancel or Modify whose side is neither "A" nor "B" raises
\* the side assertion and leaves the book as it was, whatever its price and
\* flag; every Order of the book has side "A" or "B"; a Reset and a Trade or
\* Fill with such a side return without an error, the Reset leaving an empty
\* book and the Trade or Fill the book as it was.
C32_SideAsserted ==
    /\ \A r \in DOMAIN book.objs : book.objs[r].side \in BookSides
    /\ \A e \in Inputs :
           e.side \notin BookSides =>
               LET res == Book_apply(book, e)
               IN  /\ e.action \in {"A", "C", "M"} =>
                          res.err = "AssertionError" /\ res.book = book
                   /\ e.action = "R" =>
                          res.err = "None" /\ Collect(res.book) = EmptyBook
                   /\ e.action \in {"T", "F"} =>
                          res.err = "None" /\ res.book = book

\* an indexed order of a size above zero rests alone in its level; with a
\* side that is neither "A" nor "B", an Add of another id, a Cancel of the
\* order's price and size, a Modify of the order and a flagged event are
\* rejected and leave the book, a Reset empties it and a Trade leaves it
C32_Witness ==
    /\ Resting(book) > 0
    /\ \E i \in DOMAIN book.orders_by_id :
           LET r == book.orders_by_id[i]
               o == book.objs[r]
           IN  /\ o.size > 0
               /\ ListAt(book, o.side, o.price) = <<r>>
               /\ \E e \in Inputs :
                      /\ e.action = "A" /\ e.side = "N" /\ e.order_id # i
                      /\ e.price # UNDEF_PRICE
                      /\ Feasible(book, e)
                      /\ Book_apply(book, e).err = "AssertionError"
                      /\ After(book, e) = book
               /\ \E e \in Inputs :
                      /\ e.action = "C" /\ e.side = "N" /\ e.order_id = i
                      /\ e.price = o.price /\ e.size = o.size
                      /\ Book_apply(book, e).err = "AssertionError"
                      /\ After(book, e) = book
               /\ \E e \in Inputs :
                      /\ e.action = "M" /\ e.side = "N" /\ e.order_id = i
                      /\ e.price # o.price /\ e.price # UNDEF_PRICE
                      /\ After(book, e) = book
               /\ \E e \in Inputs :
                      /\ e.action = "C" /\ e.side = "N" /\ e.price = UNDEF_PRICE
                      /\ After(book, e) = book
               /\ \E e \in Inputs :
                      e.action = "R" /\ e.side = "N" /\ After(book, e) = EmptyBook
               /\ \E e \in Inputs :
                      e.action = "T" /\ e.side = "N" /\ After(book, e) = book

(* --------------------------------- C33 -------------------------------- *)

\* what a caller gets from aggregated_bbo: the value or the exception
Answer(res) == <<res.value, res.err>>

\* what a caller gets from bbo() of the Book get_book returns for the pair
BboAnswer(m, x) ==
    LET b == Market_get_book(m, x[1], x[2])[x[1]][x[2]]
    IN  IF Book_bbo_raises(b) THEN <<None, "ValueError">>
        ELSE <<Book_bbo(b), "None">>

\* aggregated_bbo of instrument i registers no Book, leaves every Book as
\* it was, and a query made after it answers as it would have without it
QueryKeeps(m, i) ==
    LET m2 == Market_aggregated_bbo(m, i).market
    IN  /\ Registered(m2) = Registered(m)
        /\ \A x \in Registered(m) :
               /\ m2[x[1]][x[2]].orders_by_id = m[x[1]][x[2]].orders_by_id
               /\ m2[x[1]][x[2]].bids = m[x[1]][x[2]].bids
               /\ m2[x[1]][x[2]].offers = m[x[1]][x[2]].offers
               /\ m2[x[1]][x[2]].objs = m[x[1]][x[2]].objs
        /\ \A j \in Instruments :
               Answer(Market_aggregated_bbo(m2, j))
                   = Answer(Market_aggregated_bbo(m, j))
        /\ \A x \in Pairs : BboAnswer(m2, x) = BboAnswer(m, x)

\* C33: aggregated_bbo of any instrument, one with Books or one no event
\* was applied for, registers no Book and leaves the index, the bids and the
\* offers of every Book as they were (bbo, get_bid_level, get_ask_level and
\* get_snapshot, which it calls or which read the same way, assign
\* nothing), so that aggregated_bbo of any instrument and bbo of any Book
\* answer after it as they answer without it.
C33_QueriesReadOnly == \A i \in Instruments : QueryKeeps(market, i)

\* the Book of (1, 1) has a bid and is the only Book; aggregated_bbo of
\* instrument 2, which no event was applied for, has made the inner dict of
\* the instrument and no Book; the answers are those of the Market before
\* that query
C33_Witness ==
    /\ DOMAIN market = {1, 2}
    /\ Registered(market) = {<<1, 1>>}
    /\ DOMAIN market[2] = {}
    /\ Resting(market[1][1]) > 0
    /\ LET m0 == [i \in {1} |-> market[i]]
       IN  /\ Market_aggregated_bbo(m0, 2).market = market
           /\ m0 # market
           /\ Market_aggregated_bbo(m0, 2).value = <<None, None>>
           /\ Market_aggregated_bbo(market, 1).value[1] # None
           /\ Answer(Market_aggregated_bbo(market, 1))
                  = Answer(Market_aggregated_bbo(m0, 1))
           /\ Answer(Market_aggregated_bbo(market, 2))
                  = Answer(Market_aggregated_bbo(m0, 2))
           /\ BboAnswer(market, <<1, 1>>) = BboAnswer(m0, <<1, 1>>)
           /\ BboAnswer(market, <<1, 1>>)[1][1] # None
           /\ BboAnswer(market, <<2, 1>>) = <<(<<None, None>>), "None">>

====
